---- MODULE Spec2Model ----
(***************************************************************************)
(* Model of the Juma executor (internal/runtime/executor/juma_executor.go  *)
(* and juma_upload.go): one Execute or ExecuteStream call, from the        *)
(* credential check to the buffered response or to the close of the        *)
(* streaming channel, together with the request translator and the image   *)
(* upload pipeline it drives.                                              *)
(*                                                                         *)
(* Text is a sequence of tokens.  A token is a one-character string, a run  *)
(* of white space, or one of the literals "<generated-image" and "url=" of *)
(* the image tag; the text a sequence stands for is the concatenation of   *)
(* its tokens.                                                             *)
(***************************************************************************)
EXTENDS Integers, Sequences, FiniteSets, TLC

VARIABLES
    call,         \* "Execute" or "ExecuteStream"
    auth,         \* the *cliproxyauth.Auth argument
    reqModel,     \* req.Model
    payload,      \* req.Payload (parsed)
    pc,           \* position of the calling goroutine
    sessionToken, workspaceID, vendorConnectionID,
    model,        \* catalog entry found by getJumaModelByAlias
    conversionResult,     \* result of convertToJumaMessages
    jumaReq,      \* provider request handed to the HTTP client
    net,          \* network calls issued so far, in order
    err,          \* named result err
    resp,         \* result of Execute
    stream,       \* result of ExecuteStream: "nil" or "out"
    ctx,          \* the context argument: "nil" or "live"
    reporter,     \* usage reporter: [reports], the calls made on it
    cancelled,    \* ctx is done
    cancelAt,     \* number of items received when ctx was cancelled, -1 before
    cancelMid,    \* ctx was cancelled while the producer was in its loop
    status,       \* HTTP status of the chat response, 0 before
    respBody,     \* body of a non-2xx chat response
    buffered,     \* complete lines held in the scanner buffer
    lines,        \* the lines returned by scanner.Scan so far
    scanErr,      \* scanner.Err()
    fullContent, generatedImageURL,   \* Execute read loop
    ppc,          \* position of the producer goroutine
    chunkIndex,   \* producer: chunkIndex
    pending,      \* item the producer is blocked sending on out
    received,     \* items the consumer received from out, in order
    consumerGone, \* the consumer stopped receiving
    outClosed,    \* close(out) happened
    bodyClosed,   \* number of httpResp.Body.Close() calls
    hostEnv,      \* what the image and upload hosts answered, per image part
    arg,          \* arguments of a function called on its own
    ret,          \* its result
    deploy        \* a run of the deployment script: position, files, service

progVars == <<call, auth, reqModel, payload, pc, sessionToken, workspaceID,
          vendorConnectionID, model, conversionResult, jumaReq, net, err,
          resp, stream, ctx, reporter, cancelled, cancelAt, cancelMid,
          status, respBody, buffered, lines, scanErr, fullContent,
          generatedImageURL, ppc, chunkIndex, pending, received, consumerGone,
          outClosed, bodyClosed>>

vars == <<progVars, hostEnv, arg, ret, deploy>>

----------------------------------------------------------------------------
(* Bounds *)

\* upstream lines one call may read
MaxLines == 3

\* pieces (runs of text, tags) a text handed to the markup rewrite is made of
MaxPieces == 3

\* the events of an upstream body handed to both read loops
MaxEvents == 3

----------------------------------------------------------------------------
(* Strings.  A text is the sequence of its pieces, and a piece of white space
   holds nothing but white space.  A string the code compares letter by
   letter (an alias, a content type) is the sequence of its characters. *)

\* white space that TLA+ has no escape for, under a name
VerticalTab == "\\v"

UnicodeSpace ==
    {"U+0085", "U+00A0", "U+1680", "U+2000", "U+2001", "U+2002", "U+2003",
     "U+2004", "U+2005", "U+2006", "U+2007", "U+2008", "U+2009", "U+200A",
     "U+2028", "U+2029", "U+202F", "U+205F", "U+3000"}

\* \s of package regexp: [\t\n\f\r ], and the runs of them
RegexpSpace == {" ", "\t", "\n", "\f", "\r", "\n\n", "\r\n"}

\* unicode.IsSpace
Space == RegexpSpace \cup {VerticalTab} \cup UnicodeSpace

RECURSIVE TrimLeft(_)
TrimLeft(s) ==
    IF s # <<>> /\ Head(s) \in Space THEN TrimLeft(Tail(s)) ELSE s

RECURSIVE TrimRight(_)
TrimRight(s) ==
    IF s # <<>> /\ s[Len(s)] \in Space
    THEN TrimRight(SubSeq(s, 1, Len(s) - 1)) ELSE s

\* strings.TrimSpace
TrimSpace(s) == TrimRight(TrimLeft(s))

UpperCase ==
    <<"A", "B", "C", "D", "E", "F", "G", "H", "I", "J", "K", "L", "M", "N",
      "O", "P", "Q", "R", "S", "T", "U", "V", "W", "X", "Y", "Z">>

LowerCase ==
    <<"a", "b", "c", "d", "e", "f", "g", "h", "i", "j", "k", "l", "m", "n",
      "o", "p", "q", "r", "s", "t", "u", "v", "w", "x", "y", "z">>

\* the runes outside ASCII that unicode.SimpleFold puts in the orbit of an
\* ASCII letter: the long s and the Kelvin sign
LongS == "U+017F"
KelvinSign == "U+212A"

\* the runes that fold to another one, each with the lower-case letter of
\* its orbit
Folding ==
    [c \in {UpperCase[i] : i \in 1..Len(UpperCase)} \cup {LongS, KelvinSign} |->
        IF c = LongS THEN "s"
        ELSE IF c = KelvinSign THEN "k"
        ELSE LowerCase[CHOOSE i \in 1..Len(UpperCase) : UpperCase[i] = c]]

\* the representative of the folding orbit of rune c; a rune outside ASCII
\* that folds with no ASCII letter stands for itself
FoldRune(c) == IF c \in DOMAIN Folding THEN Folding[c] ELSE c

\* a string with every rune replaced by the representative of its orbit
Fold(a) == [i \in 1..Len(a) |-> FoldRune(a[i])]

\* strings.EqualFold
EqualFold(a, b) == Fold(a) = Fold(b)

\* strings.HasPrefix
HasPrefix(s, prefix) ==
    Len(s) >= Len(prefix) /\ SubSeq(s, 1, Len(prefix)) = prefix

RECURSIVE Before(_, _)
\* the part of s before its first character of stops, s when it holds none
Before(s, stops) ==
    IF s = <<>> \/ Head(s) \in stops THEN <<>>
    ELSE <<Head(s)>> \o Before(Tail(s), stops)

----------------------------------------------------------------------------
(* Model catalog *)

\* the aliases of the catalog
AliasGPT ==
    <<"j", "u", "m", "a", "-", "g", "p", "t", "-", "5", ".", "1">>

AliasClaudeOpus ==
    <<"j", "u", "m", "a", "-", "c", "l", "a", "u", "d", "e", "-", "o", "p",
      "u", "s", "-", "4", ".", "5">>

AliasGemini ==
    <<"j", "u", "m", "a", "-", "g", "e", "m", "i", "n", "i", "-", "3", "-",
      "p", "r", "o">>

AliasNanobanana ==
    <<"j", "u", "m", "a", "-", "n", "a", "n", "o", "b", "a", "n", "a", "n",
      "a", "-", "p", "r", "o">>

jumaModels == <<
    [ID |-> "401637fa", Name |-> "GPT-5.1", Alias |-> AliasGPT,
     Provider |-> "OpenAI", VendorConnectionID |-> <<"f5275937">>],
    [ID |-> "790cee03", Name |-> "Claude Opus 4.5",
     Alias |-> AliasClaudeOpus,
     Provider |-> "Anthropic", VendorConnectionID |-> <<"f958317e">>],
    [ID |-> "c073a0c0", Name |-> "Gemini 3 Pro", Alias |-> AliasGemini,
     Provider |-> "Google", VendorConnectionID |-> <<"2eb35c4f">>],
    [ID |-> "c073a0c0", Name |-> "Nanobanana Pro",
     Alias |-> AliasNanobanana,
     Provider |-> "Google", VendorConnectionID |-> <<"2eb35c4f">>] >>

NoModel == [ID |-> "", Name |-> "", Alias |-> <<>>, Provider |-> "",
            VendorConnectionID |-> <<>>]

\* a mutant of getJumaModelByAlias: an unknown alias gets the first model
getJumaModelByAliasOrFirst(alias) ==
    LET hits == {i \in 1..Len(jumaModels) :
                    EqualFold(jumaModels[i].Alias, alias)}
    IN  IF hits = {} THEN jumaModels[1]
        ELSE jumaModels[CHOOSE i \in hits : \A j \in hits : i <= j]

\* getJumaModelByAlias; NoModel stands for the nil pointer
getJumaModelByAlias(alias) ==
    LET hits == {i \in 1..Len(jumaModels) :
                    EqualFold(jumaModels[i].Alias, alias)}
    IN  IF hits = {} THEN NoModel
        ELSE jumaModels[CHOOSE i \in hits : \A j \in hits : i <= j]

isNanobananaModel(modelAlias) == modelAlias = AliasNanobanana

----------------------------------------------------------------------------
(* Credentials *)

\* auth.Attributes[k]: the zero value "" for a missing key
Attr(a, k) == IF k \in DOMAIN a.attrs THEN a.attrs[k] ELSE <<>>

\* jumaCredentials
jumaCredentials(a) ==
    IF a.kind = "nil" \/ a.kind = "noattrs"
    THEN [sessionToken |-> <<>>, workspaceID |-> <<>>,
          vendorConnectionID |-> <<>>]
    ELSE [sessionToken |-> TrimSpace(Attr(a, "session_token")),
          workspaceID |-> TrimSpace(Attr(a, "workspace_id")),
          vendorConnectionID |-> TrimSpace(Attr(a, "vendor_connection_id"))]

----------------------------------------------------------------------------
(* Markup rewrite *)

Quote == {"\"", "'"}

RECURSIVE SkipSpace(_, _)
\* first position at or after j that holds no white space
SkipSpace(s, j) ==
    IF j <= Len(s) /\ s[j] \in RegexpSpace THEN SkipSpace(s, j + 1) ELSE j

RECURSIVE NextQuote(_, _)
\* first position at or after j that holds a quote, 0 when there is none
NextQuote(s, j) ==
    IF j > Len(s) THEN 0
    ELSE IF s[j] \in Quote THEN j ELSE NextQuote(s, j + 1)

\* a mutant of TagClose: no slash may stand before ">"
TagCloseNoSlash(s, q, g) == IF g <= Len(s) /\ s[g] = ">" THEN g ELSE 0

\* The end of a match of  ["']\s*/?>  whose quote stands at position q: the
\* position of ">", 0 when the expression does not match there.
TagClose(s, q, g) ==
    IF g <= Len(s) /\ s[g] = "/"
    THEN (IF g + 1 <= Len(s) /\ s[g + 1] = ">" THEN g + 1 ELSE 0)
    ELSE (IF g <= Len(s) /\ s[g] = ">" THEN g ELSE 0)

\* The match of  url=["']([^"']+)["']\s*/?>  at position u, where q is the
\* first quote after the opening one: [end, from, to] with the group at
\* from..to, end = 0 when the expression does not match there.
TagBody(s, u, q) ==
    IF q = 0 \/ q = u + 2
    THEN [end |-> 0, from |-> 0, to |-> 0]
    ELSE [end |-> TagClose(s, q, SkipSpace(s, q + 1)),
          from |-> u + 2, to |-> q - 1]

\* The match of  \s+url=["']([^"']+)["']\s*/?>  after position i, where u is
\* the first position after i that holds no white space.
TagAfterName(s, i, u) ==
    IF u = i + 1 \/ u + 1 > Len(s)
    THEN [end |-> 0, from |-> 0, to |-> 0]
    ELSE IF s[u] # "url=" \/ s[u + 1] \notin Quote
    THEN [end |-> 0, from |-> 0, to |-> 0]
    ELSE TagBody(s, u, NextQuote(s, u + 2))

\* The match of  <generated-image\s+url=["']([^"']+)["']\s*/?>  that starts
\* at position i.
TagMatch(s, i) ==
    IF s[i] # "<generated-image"
    THEN [end |-> 0, from |-> 0, to |-> 0]
    ELSE TagAfterName(s, i, SkipSpace(s, i + 1))

RECURSIVE ReplaceFrom(_, _)

\* the replacement of the match m found at position i, and of the rest
ReplaceMatch(s, i, m) ==
    IF m.end > 0
    THEN <<"![Generated Image](">> \o SubSeq(s, m.from, m.to)
         \o <<")">> \o ReplaceFrom(s, m.end + 1)
    ELSE <<s[i]>> \o ReplaceFrom(s, i + 1)

\* regexp.ReplaceAllString from position i on
ReplaceFrom(s, i) ==
    IF i > Len(s) THEN <<>> ELSE ReplaceMatch(s, i, TagMatch(s, i))

\* transformGeneratedImageTags
transformGeneratedImageTags(content) == ReplaceFrom(content, 1)

\* a mutant of ImageMarkdown: the bare URL
ImageMarkdownBare(url) == url

\* fmt.Sprintf("![Generated Image](%s)", url)
ImageMarkdown(url) == <<"![Generated Image](">> \o url \o <<")">>

----------------------------------------------------------------------------
(* Errors and responses *)

NoErr == [kind |-> "nil", code |-> 0, msg |-> <<>>]

\* statusErr{code, msg}
statusErr(code, msg) == [kind |-> "statusErr", code |-> code, msg |-> msg]

\* an error of another package (transport, read, request construction)
otherErr(what) == [kind |-> what, code |-> 0, msg |-> <<>>]

StatusUnauthorized == 401
StatusBadRequest == 400

NoResp == [object |-> "", model |-> <<>>, content |-> <<>>, url |-> <<>>]

\* buildOpenAIChatResponse
buildOpenAIChatResponse(m, content) ==
    [object |-> "chat.completion", model |-> m,
     content |-> transformGeneratedImageTags(content), url |-> <<>>]

\* buildOpenAIImageResponse
buildOpenAIImageResponse(imageURL) ==
    [object |-> "image", model |-> <<>>, content |-> <<>>, url |-> imageURL]

\* buildOpenAIStreamChunk, wrapped in a StreamChunk{Payload: chunk}
buildOpenAIStreamChunk(m, delta, index) ==
    [kind |-> "chunk", model |-> m, delta |-> delta, index |-> index,
     err |-> NoErr]

\* StreamChunk{Err: e}
ErrItem(e) ==
    [kind |-> "err", model |-> <<>>, delta |-> <<>>, index |-> 0, err |-> e]

NoItem == [kind |-> "none", model |-> <<>>, delta |-> <<>>, index |-> 0,
           err |-> NoErr]

----------------------------------------------------------------------------
(* Asset upload pipeline (juma_upload.go) *)

NoUpload == [ID |-> <<>>, KnowledgeItemID |-> <<>>, ImageURL |-> <<>>,
             Name |-> <<>>]

\* the media types the code names
ImageJpeg == <<"i", "m", "a", "g", "e", "/", "j", "p", "e", "g">>
ImageJpg == <<"i", "m", "a", "g", "e", "/", "j", "p", "g">>
ImagePng == <<"i", "m", "a", "g", "e", "/", "p", "n", "g">>
ImageGif == <<"i", "m", "a", "g", "e", "/", "g", "i", "f">>
ImageWebp == <<"i", "m", "a", "g", "e", "/", "w", "e", "b", "p">>

OctetStream ==
    <<"a", "p", "p", "l", "i", "c", "a", "t", "i", "o", "n", "/", "o", "c",
      "t", "e", "t", "-", "s", "t", "r", "e", "a", "m">>

\* the data of a data URL: whether it decodes as base64, and the number of
\* bytes it decodes to.  The empty string decodes to no bytes.
EmptyData == [base64 |-> TRUE, size |-> 0]

\* parseJumaDataURL: u.comma says whether the text after "data:" holds a
\* comma, u.mime is the text before the first ";" of the metadata
parseJumaDataURL(u) ==
    IF u.scheme # "data"
    THEN [ok |-> FALSE, mimeType |-> <<>>, data |-> EmptyData]
    ELSE IF ~u.comma
    THEN [ok |-> FALSE, mimeType |-> <<>>, data |-> EmptyData]
    ELSE [ok |-> TRUE,
          mimeType |-> IF u.mime = <<>> THEN OctetStream ELSE u.mime,
          data |-> u.data]

getJumaExtensionFromMimeType(mimeType) ==
    CASE mimeType \in {ImageJpeg, ImageJpg} -> ".jpg"
      [] mimeType = ImagePng -> ".png"
      [] mimeType = ImageGif -> ".gif"
      [] mimeType = ImageWebp -> ".webp"
      [] OTHER -> ".png"

\* the candidate fields of the fallback chain, in the order of the code
CandidateFields ==
    <<"knowledgeItem.id", "knowledgeItemId", "knowledgeItemID",
      "knowledge.id", "image.knowledgeItemId", "image.knowledgeItem.id",
      "knowledgeItem.knowledgeItemId">>

\* gjson Get(path).String(): "" for a path the document does not hold
Get(imageData, path) ==
    IF path \in DOMAIN imageData THEN imageData[path] ELSE <<>>

RECURSIVE FirstCandidate(_, _)

\* a mutant of FirstCandidate: the first candidate that is not empty, as it is
FirstCandidateUntrimmed(imageData, i) ==
    IF i > Len(CandidateFields) THEN <<>>
    ELSE IF Get(imageData, CandidateFields[i]) # <<>>
    THEN Get(imageData, CandidateFields[i])
    ELSE FirstCandidate(imageData, i + 1)

CandidateOr(trimmed, imageData, i) ==
    IF trimmed # <<>> THEN trimmed ELSE FirstCandidate(imageData, i + 1)

\* the loop over the candidates of extractJumaKnowledgeItemID
FirstCandidate(imageData, i) ==
    IF i > Len(CandidateFields) THEN <<>>
    ELSE CandidateOr(TrimSpace(Get(imageData, CandidateFields[i])),
                     imageData, i)

\* a mutant of KnowledgeItemFallback: no fallback to the image id
KnowledgeItemFallbackNone(candidate, imageID) == candidate

\* the fallback of extractJumaKnowledgeItemID; candidate is the first
\* non-blank candidate field
KnowledgeItemFallback(candidate, imageID) ==
    IF candidate # <<>> THEN candidate
    ELSE IF imageID # <<>> THEN imageID
    ELSE <<>>

\* extractJumaKnowledgeItemID
extractJumaKnowledgeItemID(imageData, imageID) ==
    IF Get(imageData, "image.type") = <<"Knowledge">> /\ imageID # <<>>
    THEN imageID
    ELSE KnowledgeItemFallback(FirstCandidate(imageData, 1), imageID)

NoPresigned == [ImageID |-> <<>>, KnowledgeItemID |-> <<>>, ImageURL |-> <<>>,
                PresignedURL |-> <<>>, Fields |-> <<>>]

RECURSIVE ScanPresigned(_, _)

\* one line of the scan loop of getJumaPresignedURL
PresignedLine(ls, i, line, imageID) ==
    IF ~line.marker \/ ~line.exists
       \/ Get(line.item, "image.imageUrl") = <<>>
       \/ Get(line.item, "presignedUrl") = <<>>
    THEN ScanPresigned(ls, i + 1)
    ELSE [ok |-> TRUE,
          data |-> [ImageID |-> imageID,
                    KnowledgeItemID |->
                        extractJumaKnowledgeItemID(line.item, imageID),
                    ImageURL |-> Get(line.item, "image.imageUrl"),
                    PresignedURL |-> Get(line.item, "presignedUrl"),
                    Fields |-> line.fields]]

\* the scan loop of getJumaPresignedURL over the lines of the response
ScanPresigned(ls, i) ==
    IF i > Len(ls) THEN [ok |-> FALSE, data |-> NoPresigned]
    ELSE PresignedLine(ls, i, ls[i], Get(ls[i].item, "image.id"))

StatusOK == 200
StatusCreated == 201
StatusAccepted == 202
StatusNoContent == 204

\* getJumaPresignedURL; r is the answer of the negotiation endpoint
getJumaPresignedURL(r) ==
    IF r.transportErr \/ r.status # StatusOK
    THEN [ok |-> FALSE, data |-> NoPresigned]
    ELSE ScanPresigned(r.lines, 1)

\* a mutant of uploadToJumaS3: 200 alone is accepted
uploadToJumaS3Only200(s) == s = StatusOK

\* a mutant of uploadToJumaS3: every status is accepted
uploadToJumaS3Any(s) == TRUE

\* uploadToJumaS3; s is the status the storage endpoint answers with
uploadToJumaS3(s) ==
    s \in {StatusOK, StatusNoContent, StatusCreated, StatusAccepted}

\* the order uploadToJumaS3 writes the signed fields it knows in
fieldOrder ==
    <<"key", "Content-Type", "bucket", "X-Amz-Algorithm", "X-Amz-Credential",
      "X-Amz-Date", "Policy", "X-Amz-Signature">>

\* multipart.Writer.WriteField
WriteField(name, value) ==
    [name |-> name, value |-> value, filename |-> "", contentType |-> <<>>]

\* multipart.Writer.CreatePart with the header of the file part, and the
\* image written into it
CreatePart(mimeType) ==
    [name |-> "file", value |-> "imageData", filename |-> "image.png",
     contentType |-> mimeType]

\* the first loop of uploadToJumaS3, from fieldOrder[i] on
RECURSIVE WriteOrdered(_, _)
WriteOrdered(fields, i) ==
    IF i > Len(fieldOrder) THEN <<>>
    ELSE IF fieldOrder[i] \in DOMAIN fields
    THEN <<WriteField(fieldOrder[i], fields[fieldOrder[i]])>>
         \o WriteOrdered(fields, i + 1)
    ELSE WriteOrdered(fields, i + 1)

\* the fields the second loop of uploadToJumaS3 writes
RemainingFields(fields) ==
    {key \in DOMAIN fields : \A i \in 1..Len(fieldOrder) : fieldOrder[i] # key}

\* the orders a range over a Go map with these keys may take
MapOrders(keys) ==
    {o \in [1..Cardinality(keys) -> keys] :
        \A i, j \in 1..Cardinality(keys) : o[i] = o[j] => i = j}

\* a mutant of multipartBody: the file part is written first
multipartBodyFileFirst(fields, mimeType, order) ==
    <<CreatePart(mimeType)>>
    \o WriteOrdered(fields, 1)
    \o [k \in 1..Len(order) |-> WriteField(order[k], fields[order[k]])]

\* the parts uploadToJumaS3 writes into the body of its request; order is the
\* order the range over the remaining fields takes
multipartBody(fields, mimeType, order) ==
    WriteOrdered(fields, 1)
    \o [k \in 1..Len(order) |-> WriteField(order[k], fields[order[k]])]
    \o <<CreatePart(mimeType)>>

UploadRequest(kind, mimeType) == [kind |-> kind, mimeType |-> mimeType]

\* a mutant of UploadNegotiated: the transfer is sent whatever the
\* negotiation gave
UploadNegotiatedAnyway(mimeType, presigned, e) ==
    [ok |-> uploadToJumaS3(e.transfer) /\ presigned.ok,
     result |-> NoUpload,
     net |-> <<UploadRequest("negotiate", mimeType),
               UploadRequest("transfer", mimeType)>>]

\* UploadImageToJuma after the negotiation: the transfer and the result
UploadNegotiated(mimeType, presigned, e) ==
    IF ~presigned.ok
    THEN [ok |-> FALSE, result |-> NoUpload,
          net |-> <<UploadRequest("negotiate", mimeType)>>]
    ELSE IF ~uploadToJumaS3(e.transfer)
    THEN [ok |-> FALSE, result |-> NoUpload,
          net |-> <<UploadRequest("negotiate", mimeType),
                    UploadRequest("transfer", mimeType)>>]
    ELSE [ok |-> TRUE,
          result |-> [ID |-> presigned.data.ImageID,
                      KnowledgeItemID |-> presigned.data.KnowledgeItemID,
                      ImageURL |-> presigned.data.ImageURL,
                      Name |-> <<"upload_", e.now,
                                 getJumaExtensionFromMimeType(mimeType)>>],
          net |-> <<UploadRequest("negotiate", mimeType),
                    UploadRequest("transfer", mimeType)>>]

\* UploadImageToJuma after parseJumaDataURL
UploadParsed(parsed, e) ==
    IF ~parsed.ok \/ ~parsed.data.base64
    THEN [ok |-> FALSE, result |-> NoUpload, net |-> <<>>]
    ELSE UploadNegotiated(parsed.mimeType,
                          getJumaPresignedURL(e.negotiate), e)

\* UploadImageToJuma; e holds the answers of the two endpoints and the clock.
\* net lists the requests sent.
UploadImageToJuma(u, e) ==
    IF u.scheme # "data"
    THEN [ok |-> FALSE, result |-> NoUpload, net |-> <<>>]
    ELSE UploadParsed(parseJumaDataURL(u), e)

----------------------------------------------------------------------------
(* Request translator (juma_executor.go) *)

jumaMaxRemoteImageBytes == 10485760

TextHtml == <<"t", "e", "x", "t", "/", "h", "t", "m", "l">>

ImagePrefix == <<"i", "m", "a", "g", "e", "/">>

\* a mutant of IsImageType: text/html passes for an image
IsImageTypeOrHTML(contentType) ==
    HasPrefix(contentType, ImagePrefix) \/ contentType = TextHtml

\* strings.HasPrefix(contentType, "image/")
IsImageType(contentType) == HasPrefix(contentType, ImagePrefix)

NoDataURL == [scheme |-> "", comma |-> FALSE, mime |-> <<>>,
              data |-> [base64 |-> FALSE, size |-> 0]]

\* a mutant of LimitedRead: the whole body is read
LimitedReadAll(size, maxBytes) == size

\* io.ReadAll(io.LimitReader(resp.Body, maxBytes+1)): the number of bytes
\* read of a body of size bytes
LimitedRead(size, maxBytes) ==
    IF size > maxBytes + 1 THEN maxBytes + 1 ELSE size

\* fmt.Sprintf("data:%s;base64,%s", contentType, encoded), as
\* parseJumaDataURL will read it: the media type ends at the first ";" or
\* ",", and a comma in contentType leaves the rest of it, with ";base64,",
\* in front of the encoded bytes
SprintfDataURL(contentType, size) ==
    [scheme |-> "data", comma |-> TRUE,
     mime |-> Before(contentType, {";", ","}),
     data |-> [base64 |-> \A i \in 1..Len(contentType) :
                              contentType[i] # ",",
               size |-> size]]

\* fetchImageDataURLFromHTTP after the body was read; read is the number of
\* bytes read
FetchedImage(f, contentType, maxBytes) ==
    IF LimitedRead(f.size, maxBytes) > maxBytes \/ ~IsImageType(contentType)
    THEN [ok |-> FALSE, dataURL |-> NoDataURL,
          read |-> LimitedRead(f.size, maxBytes)]
    ELSE [ok |-> TRUE,
          dataURL |-> SprintfDataURL(contentType,
                                     LimitedRead(f.size, maxBytes)),
          read |-> LimitedRead(f.size, maxBytes)]

\* fetchImageDataURLFromHTTP fails before the body is read
FetchRefused == [ok |-> FALSE, dataURL |-> NoDataURL, read |-> 0]

\* fetchImageDataURLFromHTTP; f is the answer of the remote host: f.size is
\* the length of the body it delivers (before the read fails, when it
\* does), f.contentType its Content-Type header ("" when absent) and
\* f.sniffed what http.DetectContentType finds in the body
fetchImageDataURLFromHTTP(f, maxBytes) ==
    IF f.transportErr \/ f.status # StatusOK
    THEN FetchRefused
    ELSE IF f.readErr
    THEN [ok |-> FALSE, dataURL |-> NoDataURL,
          read |-> LimitedRead(f.size, maxBytes)]
    ELSE FetchedImage(f, IF f.contentType = <<>> THEN f.sniffed
                         ELSE f.contentType, maxBytes)

\* a mutant of AttachUpload: an upload that fails takes the images attached
\* before it along
AttachUploadAllOrNothing(acc, up) ==
    IF ~up.ok
    THEN [acc EXCEPT !.net = @ \o up.net, !.msgImages = <<>>,
                     !.uploadedImages = <<>>]
    ELSE [acc EXCEPT
            !.net = @ \o up.net,
            !.uploads = Append(@, up.result),
            !.msgImages = Append(@, [ID |-> up.result.ID,
                                     ImageURL |-> up.result.ImageURL,
                                     Name |-> up.result.Name]),
            !.uploadedImages = Append(@, [ID |-> up.result.ID,
                                          ImageURL |-> up.result.ImageURL,
                                          Name |-> up.result.Name])]

\* handleDataURLUpload after UploadImageToJuma returned up
AttachUpload(acc, up) ==
    IF ~up.ok THEN [acc EXCEPT !.net = @ \o up.net]
    ELSE IF up.result.ID # <<>> /\ up.result.ImageURL # <<>>
    THEN [acc EXCEPT
            !.net = @ \o up.net,
            !.uploads = Append(@, up.result),
            !.msgImages = Append(@, [ID |-> up.result.ID,
                                     ImageURL |-> up.result.ImageURL,
                                     Name |-> up.result.Name]),
            !.uploadedImages = Append(@, [ID |-> up.result.ID,
                                          ImageURL |-> up.result.ImageURL,
                                          Name |-> up.result.Name])]
    ELSE [acc EXCEPT !.net = @ \o up.net,
                     !.uploads = Append(@, up.result)]

\* the closure handleDataURLUpload of convertToJumaMessages; acc holds the
\* variables it captures
handleDataURLUpload(acc, dataURL, e, tok, ws) ==
    IF tok = <<>> \/ ws = <<>> THEN acc
    ELSE AttachUpload(acc, UploadImageToJuma(dataURL, e))

ImagePartTypes == {"image_url", "input_image", "image"}

FetchRequest == [kind |-> "fetch", mimeType |-> <<>>]

\* the branch of an http(s) image URL, after fetchImageDataURLFromHTTP
\* returned got
RemoteImage(acc, got, e, tok, ws) ==
    IF ~got.ok THEN acc
    ELSE handleDataURLUpload(acc, got.dataURL, e, tok, ws)

\* the branch of an image part whose URL is not empty
ImageURLPart(acc, url, e, tok, ws) ==
    IF url.scheme = "data"
    THEN handleDataURLUpload(acc, url, e, tok, ws)
    ELSE IF url.scheme \in {"http", "https"}
    THEN RemoteImage([acc EXCEPT !.net = Append(@, FetchRequest)],
                     fetchImageDataURLFromHTTP(e.fetch,
                                               jumaMaxRemoteImageBytes),
                     e, tok, ws)
    ELSE acc

\* a mutant of ProcessPart: a text part is put before the text read so far
ProcessPartPrepend(acc, part, slot, env, tok, ws) ==
    IF part.type = "text"
    THEN [acc EXCEPT !.textContent = part.text \o @]
    ELSE IF part.type \notin ImagePartTypes \/ part.url.scheme = ""
    THEN acc
    ELSE ImageURLPart(acc, part.url, env[slot], tok, ws)

\* one iteration of the loop over the parts of a content array; env[slot]
\* holds the answers of the hosts the upload of this part talks to
ProcessPart(acc, part, slot, env, tok, ws) ==
    IF part.type = "text"
    THEN [acc EXCEPT !.textContent = @ \o part.text]
    ELSE IF part.type \notin ImagePartTypes \/ part.url.scheme = ""
    THEN acc
    ELSE ImageURLPart(acc, part.url, env[slot], tok, ws)

RECURSIVE ProcessParts(_, _, _, _, _, _, _)
ProcessParts(acc, parts, j, i, env, tok, ws) ==
    IF i > Len(parts) THEN acc
    ELSE ProcessParts(ProcessPart(acc, parts[i], <<j, i>>, env, tok, ws),
                      parts, j, i + 1, env, tok, ws)

SystemPromptText ==
    <<"You are an expert image editing assistant. When the user provides an image, you MUST use the 'ImageEdit' tool to modify it according to their instructions. Do not just describe the edit. Always output the tool call.">>

TextParts(text) ==
    IF text # <<>> THEN <<[Type |-> "text", Text |-> text]>> ELSE <<>>

\* the synthetic leading system message
systemPrompt ==
    [Role |-> "system", Content |-> SystemPromptText,
     Parts |-> TextParts(SystemPromptText), UploadedImages |-> <<>>]

\* the end of one iteration of the loop over the messages: the provider
\* message is built from what the parts left in acc
AppendMessage(st, role, acc) ==
    [result |-> Append(st.result,
                       [Role |-> role, Content |-> acc.textContent,
                        Parts |-> TextParts(acc.textContent),
                        UploadedImages |-> acc.msgImages]),
     uploadedImages |-> acc.uploadedImages,
     uploads |-> acc.uploads, net |-> acc.net]

\* the variables of one iteration of the loop over the messages
MessageStart(st) ==
    [textContent |-> <<>>, msgImages |-> <<>>,
     uploadedImages |-> st.uploadedImages,
     uploads |-> st.uploads, net |-> st.net]

\* one iteration of the loop over the messages
ProcessMessage(st, msg, j, env, tok, ws, nano) ==
    IF msg.role = "system" /\ nano THEN st
    ELSE IF msg.content.isArray
    THEN AppendMessage(st, msg.role,
                       ProcessParts(MessageStart(st), msg.content.parts, j,
                                    1, env, tok, ws))
    ELSE AppendMessage(st, msg.role,
                       [MessageStart(st) EXCEPT
                           !.textContent = msg.content.text])

RECURSIVE ProcessMessages(_, _, _, _, _, _, _)
ProcessMessages(st, msgs, j, env, tok, ws, nano) ==
    IF j > Len(msgs) THEN st
    ELSE ProcessMessages(ProcessMessage(st, msgs[j], j, env, tok, ws, nano),
                         msgs, j + 1, env, tok, ws, nano)

RECURSIVE KnowledgeItemsOf(_)
\* the knowledgeItems loop over uploadedImages
KnowledgeItemsOf(imgs) ==
    IF imgs = <<>> THEN <<>>
    ELSE (IF Head(imgs).ID # <<>>
          THEN <<[id |-> Head(imgs).ID,
                  source |-> "AttachedNewContextSnippet"]>>
          ELSE <<>>) \o KnowledgeItemsOf(Tail(imgs))

NoConversion == [Messages |-> <<>>, KnowledgeItems |-> <<>>,
                 UploadedImages |-> <<>>, uploads |-> <<>>, net |-> <<>>]

\* the JumaConversionResult built after the loop over the messages
ConversionOf(st) ==
    [Messages |-> st.result,
     KnowledgeItems |-> KnowledgeItemsOf(st.uploadedImages),
     UploadedImages |-> st.uploadedImages,
     uploads |-> st.uploads, net |-> st.net]

\* the result list before the loop over the messages
ConversionStart(nano) ==
    [result |-> IF nano THEN <<systemPrompt>> ELSE <<>>,
     uploadedImages |-> <<>>, uploads |-> <<>>, net |-> <<>>]

\* convertToJumaMessages; env gives, for each part <<message, part>>, the
\* answers of the hosts its upload talks to.  Message ids are fresh random
\* values and are left out.  uploads and net record the results of
\* UploadImageToJuma and the requests sent.
convertToJumaMessages(p, tok, ws, env) ==
    ConversionOf(ProcessMessages(ConversionStart(isNanobananaModel(p.model)),
                                 p.messages, 1, env, tok, ws,
                                 isNanobananaModel(p.model)))

ImageEditTool ==
    [Type |-> "function", Name |-> "ImageEdit",
     Properties |-> {"prompt", "imageUrls", "orientation"},
     Required |-> {"prompt"}]

NoRequest == [Messages |-> <<>>, ModelID |-> "", WorkspaceID |-> <<>>,
              VendorConnectionID |-> <<>>, IsNewThread |-> FALSE,
              KnowledgeItems |-> <<>>, Tools |-> <<>>]

\* the JumaRequest literal of Execute and ExecuteStream
BuildJumaRequest(conv, m, ws, vendor, alias) ==
    [Messages |-> conv.Messages, ModelID |-> m.ID, WorkspaceID |-> ws,
     VendorConnectionID |-> vendor, IsNewThread |-> TRUE,
     KnowledgeItems |-> conv.KnowledgeItems,
     Tools |-> IF isNanobananaModel(alias) THEN <<ImageEditTool>> ELSE <<>>]

----------------------------------------------------------------------------
(* Usage reporter: its code lies outside the executor's files.  The model
   keeps what the executor does with it, the calls it makes on the reporter
   of one Execute or ExecuteStream in the order it makes them, each with
   whether the call notifies a failure: publishFailure does,
   trackFailure(ctx, &err) does when the error it is handed is not nil,
   ensurePublished, the call of the paths that met no error, does not.
   What the reporter does with a call that follows another is not
   modelled. *)

NewReporter == [reports |-> <<>>]

\* a call on the reporter
ReporterCall(fn, failed) == [fn |-> fn, failed |-> failed]

\* reporter.publishFailure(ctx)
publishFailure(r) ==
    [reports |-> Append(r.reports, ReporterCall("publishFailure", TRUE))]

\* reporter.ensurePublished(ctx)
ensurePublished(r) ==
    [reports |-> Append(r.reports, ReporterCall("ensurePublished", FALSE))]

\* defer reporter.trackFailure(ctx, &err), run when the function returns
trackFailure(r, e) ==
    [reports |-> Append(r.reports, ReporterCall("trackFailure", e # NoErr))]

\* the calls on the reporter that notify a failure
FailureReports(r) == SelectSeq(r.reports, LAMBDA c : c.failed)

----------------------------------------------------------------------------
(* Inputs *)

Calls == {"Execute", "ExecuteStream"}

Contexts == {"nil", "live"}

NoAttrs == [k \in {} |-> <<>>]

Auth(attrs) == [kind |-> "auth", attrs |-> attrs]

NilAuth == [kind |-> "nil", attrs |-> NoAttrs]

\* a session token and a workspace
FullAuth ==
    Auth([session_token |-> <<"\n", "t", "\r">>, workspace_id |-> <<"w">>])

\* a session token, a vendor connection and no workspace
TokenAuth ==
    Auth([session_token |-> <<"t">>, vendor_connection_id |-> <<"v">>])

\* credentials that carry no session token
TokenlessAuths ==
    { NilAuth,
      [kind |-> "noattrs", attrs |-> NoAttrs],
      Auth([workspace_id |-> <<"w">>]),
      Auth([session_token |-> <<>>, workspace_id |-> <<"w">>]),
      Auth([session_token |-> <<"\n", "\t", VerticalTab>>,
           workspace_id |-> <<"w">>]) }

Auths == TokenlessAuths \cup {FullAuth, TokenAuth}

\* strings.ToUpper on ASCII letters
ToUpper(s) ==
    [i \in 1..Len(s) |->
        IF \E k \in 1..Len(LowerCase) : LowerCase[k] = s[i]
        THEN UpperCase[CHOOSE k \in 1..Len(LowerCase) : LowerCase[k] = s[i]]
        ELSE s[i]]

\* JUMA-NANOBANANA-PRO
UpperNanobanana == ToUpper(AliasNanobanana)

\* Juma-Claude-Opus-4.5 written with a long s
FoldedClaudeOpus ==
    <<"J", "u", "m", "a", "-", "C", "l", "a", "u", "d", "e", "-", "O", "p",
      "u", LongS, "-", "4", ".", "5">>

\* gpt-4, an alias the catalog does not hold
UnknownAlias == <<"g", "p", "t", "-", "4">>

ReqModels ==
    {AliasGPT, AliasNanobanana, UpperNanobanana, UnknownAlias}

TextPart(t) == [type |-> "text", text |-> t, url |-> NoDataURL]

ImagePart(u) == [type |-> "image_url", text |-> <<>>, url |-> u]

PngDataURL == [scheme |-> "data", comma |-> TRUE, mime |-> ImagePng,
               data |-> [base64 |-> TRUE, size |-> 3]]

RemoteURL == [scheme |-> "https", comma |-> FALSE, mime |-> <<>>,
              data |-> [base64 |-> FALSE, size |-> 0]]

StringContent(t) == [isArray |-> FALSE, text |-> t, parts |-> <<>>]

ArrayContent(ps) == [isArray |-> TRUE, text |-> <<>>, parts |-> ps]

Message(role, content) == [role |-> role, content |-> content]

TextOnly == << Message("user", StringContent(<<"h", "i">>)) >>

WithDataImage ==
    << Message("system", StringContent(<<"s">>)),
       Message("user", ArrayContent(<<TextPart(<<"e">>),
                                      ImagePart(PngDataURL)>>)) >>

WithRemoteImage == << Message("user", ArrayContent(<<ImagePart(RemoteURL)>>)) >>

WithTwoImages ==
    << Message("user", ArrayContent(<<ImagePart(RemoteURL),
                                      ImagePart(PngDataURL)>>)) >>

\* four messages of four roles: a text, two text parts around an image, a
\* part of a type the translator does not know, a text
Conversation ==
    << Message("system", StringContent(<<"s">>)),
       Message("user", ArrayContent(<<TextPart(<<"a">>),
                                      ImagePart(PngDataURL),
                                      TextPart(<<"b">>)>>)),
       Message("assistant",
               ArrayContent(<<[type |-> "audio", text |-> <<"x">>,
                               url |-> NoDataURL]>>)),
       Message("tool", StringContent(<<"c">>)) >>

\* two messages with an image each
WithImagesInTwoMessages ==
    << Message("user", ArrayContent(<<ImagePart(PngDataURL)>>)),
       Message("user", ArrayContent(<<TextPart(<<"a">>),
                                      ImagePart(RemoteURL)>>)) >>

\* the message lists a request may carry
MessageLists == {TextOnly, WithDataImage, WithRemoteImage}

Request(a, m, ms) ==
    [auth |-> a, model |-> m, payload |-> [model |-> m, messages |-> ms]]

\* the requests of a call: every credential and every alias with a plain
\* request, and every message list with a full credential
Requests ==
    {Request(a, AliasGPT, TextOnly) : a \in Auths}
    \cup {Request(a, UnknownAlias, WithDataImage) : a \in {NilAuth, FullAuth}}
    \cup {Request(FullAuth, m, TextOnly) :
             m \in {AliasNanobanana, UpperNanobanana, FoldedClaudeOpus,
                   UnknownAlias}}
    \cup {Request(FullAuth, AliasGPT, ms) : ms \in MessageLists}

\* requests whose payload names another model than the request does (the
\* gateway resolved the alias, the payload is the caller's)
RenamedRequests ==
    {[auth |-> FullAuth, model |-> m.request,
      payload |-> [model |-> m.payload, messages |-> Conversation]] :
        m \in {[request |-> AliasNanobanana, payload |-> AliasGPT],
               [request |-> AliasGPT,
                payload |-> AliasNanobanana],
               [request |-> AliasNanobanana, payload |-> <<>>]}}

\* the requests handed to the translator: every credential, alias and
\* message list
TranslatorRequests ==
    {Request(a, m, ms) : a \in Auths, m \in ReqModels, ms \in MessageLists}
    \cup {Request(FullAuth, m, ms) :
             m \in ReqModels, ms \in {WithTwoImages, Conversation}}
    \cup RenamedRequests
    \cup {Request(FullAuth, AliasGPT, WithImagesInTwoMessages)}

\* the parts of a payload that name an image
ImageSlots(p) ==
    {<<j, i>> \in (1..Len(p.messages)) \X (1..2) :
        /\ p.messages[j].content.isArray
        /\ i <= Len(p.messages[j].content.parts)
        /\ p.messages[j].content.parts[i].type \in ImagePartTypes}

----------------------------------------------------------------------------
(* Answers of the remote hosts *)

Path(k, v) == k :> v

KnowledgeItem ==
    Path("image.id", <<"A1">>) @@ Path("image.type", <<"Knowledge">>)
    @@ Path("image.imageUrl", <<"U1">>) @@ Path("presignedUrl", <<"P">>)

ExplicitItem ==
    Path("image.id", <<"A1">>) @@ Path("image.type", <<"Image">>)
    @@ Path("image.imageUrl", <<"U1">>) @@ Path("presignedUrl", <<"P">>)
    @@ Path("knowledgeItemId", <<" ", "K1">>)

BareItem ==
    Path("image.id", <<"A1">>) @@ Path("image.type", <<"Image">>)
    @@ Path("image.imageUrl", <<"U1">>) @@ Path("presignedUrl", <<"P">>)

SecondItem ==
    Path("image.id", <<"A2">>) @@ Path("image.type", <<"Knowledge">>)
    @@ Path("image.imageUrl", <<"U2">>) @@ Path("presignedUrl", <<"P">>)

NoIDItem ==
    Path("image.type", <<"Knowledge">>)
    @@ Path("image.imageUrl", <<"U1">>) @@ Path("presignedUrl", <<"P">>)

SignedFields ==
    Path("key", "k") @@ Path("Content-Type", ImagePng)
    @@ Path("Policy", "p")

NoiseLine == [marker |-> FALSE, exists |-> FALSE, item |-> NoAttrs,
              fields |-> NoAttrs]

Negotiated(item) ==
    [transportErr |-> FALSE, status |-> StatusOK,
     lines |-> <<NoiseLine,
                 [marker |-> TRUE, exists |-> TRUE, item |-> item,
                  fields |-> SignedFields]>>]

NegotiateRefused == [transportErr |-> FALSE, status |-> 500, lines |-> <<>>]

NegotiateAnswers ==
    { Negotiated(KnowledgeItem), Negotiated(ExplicitItem),
      Negotiated(BareItem), Negotiated(NoIDItem), Negotiated(SecondItem),
      NegotiateRefused,
      [transportErr |-> FALSE, status |-> StatusOK, lines |-> <<NoiseLine>>] }

TransferStatuses == {StatusNoContent, 403}

FetchAnswer(code, size, contentType, sniffed) ==
    [transportErr |-> FALSE, status |-> code, readErr |-> FALSE,
     size |-> size, contentType |-> contentType, sniffed |-> sniffed]

\* image/bmp; charset=binary
ImageBmpCharset ==
    <<"i", "m", "a", "g", "e", "/", "b", "m", "p", ";", " ", "c", "h", "a",
      "r", "s", "e", "t", "=", "b", "i", "n", "a", "r", "y">>

\* image/png, image/png: a header sent twice and joined
ImagePngTwice == ImagePng \o <<",", " ">> \o ImagePng

\* an image and a page, each with its Content-Type header
PlainFetchAnswers ==
    { FetchAnswer(StatusOK, 3, ImagePng, ImagePng),
      FetchAnswer(StatusOK, 3, TextHtml, TextHtml) }

\* the same, and answers without the header, a refusal, and bodies at and
\* over the size limit
FetchAnswers ==
    PlainFetchAnswers
    \cup { FetchAnswer(StatusOK, 3, <<>>, ImagePng),
           FetchAnswer(StatusOK, 3, <<>>, TextHtml),
           FetchAnswer(404, 3, ImagePng, ImagePng),
           FetchAnswer(StatusOK, 3, ImageBmpCharset, ImagePng),
           FetchAnswer(StatusOK, jumaMaxRemoteImageBytes, ImagePng,
                       ImagePng),
           FetchAnswer(StatusOK, jumaMaxRemoteImageBytes + 1, ImagePng,
                       ImagePng) }

\* what the remote hosts may answer during the upload of one image
ImageEnvs ==
    [fetch : FetchAnswers, negotiate : NegotiateAnswers,
     transfer : TransferStatuses, now : {"1"}]

\* the same with a storage endpoint that accepts and a negotiation endpoint
\* that either designates a knowledge asset or refuses
PlainImageEnvs ==
    [fetch : PlainFetchAnswers,
     negotiate : {Negotiated(KnowledgeItem), NegotiateRefused},
     transfer : {StatusNoContent}, now : {"1"}]

\* statuses the chat endpoint may answer with
ChatStatuses == {199, 204, 300, 500}

\* bodies of a non-2xx answer
ErrorBodies == {<<>>, <<"e">>}

ImageTag == <<"<generated-image", " ", "url=", "\"", "u", "\"", ">">>

UpstreamLine(prefix, data, type, delta, imageUrl) ==
    [prefix |-> prefix, data |-> data, type |-> type, delta |-> delta,
     imageUrl |-> imageUrl]

\* the lines the chat endpoint may stream
UpstreamLines ==
    { UpstreamLine(FALSE, "[DONE]", "", <<>>, <<>>),
      UpstreamLine(TRUE, "[DONE]", "", <<>>, <<>>),
      UpstreamLine(TRUE, "json", "text-delta", <<"a">>, <<>>),
      UpstreamLine(TRUE, "json", "text-delta", ImageTag, <<>>),
      UpstreamLine(TRUE, "json", "tool-output-available", <<>>, <<"v">>),
      UpstreamLine(TRUE, "json", "tool-output-available", <<>>, <<>>),
      UpstreamLine(TRUE, "json", "start", <<"a">>, <<"v">>) }

----------------------------------------------------------------------------
(* Initial state *)

\* no function is called on its own
NoCall == [fn |-> "none"]

\* the deployment script is not run
NoDeploy == [pc |-> "none"]

\* the state of a call that has not started
Fresh ==
    /\ pc = "start"
    /\ sessionToken = <<>>
    /\ workspaceID = <<>>
    /\ vendorConnectionID = <<>>
    /\ model = NoModel
    /\ conversionResult = NoConversion
    /\ jumaReq = NoRequest
    /\ net = <<>>
    /\ err = NoErr
    /\ resp = NoResp
    /\ stream = "nil"
    /\ reporter = NewReporter
    /\ cancelled = FALSE
    /\ cancelAt = -1
    /\ cancelMid = FALSE
    /\ status = 0
    /\ respBody = <<>>
    /\ buffered = 0
    /\ lines = <<>>
    /\ scanErr = NoErr
    /\ fullContent = <<>>
    /\ generatedImageURL = <<>>
    /\ ppc = "none"
    /\ chunkIndex = 0
    /\ pending = NoItem
    /\ received = <<>>
    /\ consumerGone = FALSE
    /\ outClosed = FALSE
    /\ bodyClosed = 0
    /\ hostEnv = <<>>

InitWith(requests) ==
    /\ call \in Calls
    /\ ctx \in Contexts
    /\ \E r \in requests :
          auth = r.auth /\ reqModel = r.model /\ payload = r.payload
    /\ Fresh
    /\ arg = NoCall
    /\ ret = NoCall
    /\ deploy = NoDeploy

Init == InitWith(Requests)

InitTranslator == InitWith(TranslatorRequests)

----------------------------------------------------------------------------
(* The calling goroutine: Execute and ExecuteStream up to the response *)

\* a mutant of ReturnErr: the deferred call sees a nil error
ReturnErrUnseen(e) ==
    /\ err' = e
    /\ reporter' = trackFailure(reporter, NoErr)
    /\ pc' = "returned"

\* a mutant of ReturnErr: a failed httpClient.Do is tried again
ReturnErrRetry(e) ==
    /\ err' = e
    /\ reporter' = trackFailure(reporter, e)
    /\ pc' = IF pc = "do" THEN "do" ELSE "returned"

\* a mutant of ReturnErr: the failure is published before the return and
\* seen again by the deferred call
ReturnErrTwice(e) ==
    /\ err' = e
    /\ reporter' = trackFailure(publishFailure(reporter), e)
    /\ pc' = "returned"

\* a return of Execute or ExecuteStream with error e: the deferred
\* reporter.trackFailure(ctx, &err) sees the named result
ReturnErr(e) ==
    /\ err' = e
    /\ reporter' = trackFailure(reporter, e)
    /\ pc' = "returned"

\* a mutant of Is2xx: 300 counts as a success
Is2xxOr300(code) == ~(code < 200 \/ code > 300)

\* httpResp.StatusCode < 200 || httpResp.StatusCode >= 300, negated
Is2xx(code) == ~(code < 200 \/ code >= 300)

\* a mutant of MissingToken: only an absent auth record is rejected
MissingTokenNilOnly(a) == a.kind = "nil"

\* the credential check of Execute and ExecuteStream
MissingToken(a) == jumaCredentials(a).sessionToken = <<>>

\* a mutant of Validate: the model is looked up before the credential is
\* checked
ValidateModelFirst ==
    /\ pc = "start"
    /\ LET creds == jumaCredentials(auth)
           m == getJumaModelByAlias(reqModel)
       IN  IF m = NoModel
           THEN /\ ReturnErr(statusErr(StatusBadRequest,
                                       <<"unknown Juma model: ", reqModel>>))
                /\ sessionToken' = creds.sessionToken
                /\ workspaceID' = creds.workspaceID
                /\ vendorConnectionID' = creds.vendorConnectionID
                /\ model' = m
           ELSE IF MissingToken(auth)
           THEN /\ ReturnErr(statusErr(StatusUnauthorized,
                                       <<"missing Juma session token">>))
                /\ UNCHANGED <<sessionToken, workspaceID, vendorConnectionID,
                               model>>
           ELSE /\ pc' = "translate"
                /\ sessionToken' = creds.sessionToken
                /\ workspaceID' = creds.workspaceID
                /\ vendorConnectionID' =
                       IF creds.vendorConnectionID = <<>>
                       THEN m.VendorConnectionID
                       ELSE creds.vendorConnectionID
                /\ model' = m
                /\ UNCHANGED <<err, reporter>>
    /\ UNCHANGED <<hostEnv, arg, ret, deploy>>
    /\ UNCHANGED <<call, auth, reqModel, payload, conversionResult, jumaReq,
                   net, resp, stream, ctx, cancelled, cancelAt, cancelMid,
                   status, respBody, buffered, lines, scanErr, fullContent,
                   generatedImageURL, ppc, chunkIndex, pending, received,
                   consumerGone, outClosed, bodyClosed>>

\* credential check and model lookup
Validate ==
    /\ pc = "start"
    /\ LET creds == jumaCredentials(auth)
           m == getJumaModelByAlias(reqModel)
       IN  IF MissingToken(auth)
           THEN /\ ReturnErr(statusErr(StatusUnauthorized,
                                       <<"missing Juma session token">>))
                /\ UNCHANGED <<sessionToken, workspaceID, vendorConnectionID,
                               model>>
           ELSE IF m = NoModel
           THEN /\ ReturnErr(statusErr(StatusBadRequest,
                                       <<"unknown Juma model: ", reqModel>>))
                /\ sessionToken' = creds.sessionToken
                /\ workspaceID' = creds.workspaceID
                /\ vendorConnectionID' = creds.vendorConnectionID
                /\ model' = m
           ELSE /\ pc' = "translate"
                /\ sessionToken' = creds.sessionToken
                /\ workspaceID' = creds.workspaceID
                /\ vendorConnectionID' =
                       IF creds.vendorConnectionID = <<>>
                       THEN m.VendorConnectionID
                       ELSE creds.vendorConnectionID
                /\ model' = m
                /\ UNCHANGED <<err, reporter>>
    /\ UNCHANGED <<hostEnv, arg, ret, deploy>>
    /\ UNCHANGED <<call, auth, reqModel, payload, conversionResult, jumaReq,
                   net, resp, stream, ctx, cancelled, cancelAt, cancelMid,
                   status, respBody, buffered, lines, scanErr, fullContent,
                   generatedImageURL, ppc, chunkIndex, pending, received,
                   consumerGone, outClosed, bodyClosed>>

\* the end of the translation: the JumaConversionResult, the JumaRequest
\* literal, json.Marshal and http.NewRequestWithContext, which fails on a
\* nil context
Translated(conv) ==
    /\ conversionResult' = conv
    /\ jumaReq' = BuildJumaRequest(conv, model, workspaceID,
                                   vendorConnectionID, reqModel)
    /\ UNCHANGED net
    /\ IF ctx = "nil"
       THEN ReturnErr(otherErr("net/http: nil Context"))
       ELSE pc' = "do" /\ UNCHANGED <<err, reporter>>

\* convertToJumaMessages runs up to the next request it blocks on: the
\* fetch of a remote image, the negotiation of an upload or the transfer to
\* the storage endpoint (after which UploadImageToJuma sleeps two seconds).
\* conv is what the conversion comes to under the answers of the hosts;
\* net holds the requests already sent.
TranslateStep(conv) ==
    IF Len(net) < Len(conv.net)
    THEN /\ net' = Append(net, conv.net[Len(net) + 1])
         /\ pc' = "upload"
         /\ UNCHANGED <<conversionResult, jumaReq, err, reporter>>
    ELSE Translated(conv)

\* the translation starts; env is what the hosts will answer to the
\* requests of each image part
TranslateWith(envs) ==
    /\ pc = "translate"
    /\ \E env \in [ImageSlots(payload) -> envs] :
          /\ hostEnv' = env
          /\ TranslateStep(convertToJumaMessages(payload, sessionToken,
                                                 workspaceID, env))
    /\ UNCHANGED <<arg, ret, deploy>>
    /\ UNCHANGED <<call, auth, reqModel, payload, sessionToken, workspaceID,
                   vendorConnectionID, model, resp, stream, ctx, cancelled,
                   cancelAt, cancelMid, status, respBody, buffered, lines,
                   scanErr, fullContent, generatedImageURL, ppc, chunkIndex,
                   pending, received, consumerGone, outClosed, bodyClosed>>

\* the request the translation was blocked on is answered, and the
\* translation goes on to its next request or to its end
TranslateOn ==
    /\ pc = "upload"
    /\ TranslateStep(convertToJumaMessages(payload, sessionToken,
                                           workspaceID, hostEnv))
    /\ UNCHANGED <<hostEnv, arg, ret, deploy>>
    /\ UNCHANGED <<call, auth, reqModel, payload, sessionToken, workspaceID,
                   vendorConnectionID, model, resp, stream, ctx, cancelled,
                   cancelAt, cancelMid, status, respBody, buffered, lines,
                   scanErr, fullContent, generatedImageURL, ppc, chunkIndex,
                   pending, received, consumerGone, outClosed, bodyClosed>>

Translate == TranslateWith(PlainImageEnvs)

TranslateAny == TranslateWith(ImageEnvs)

ChatCall == [kind |-> "chat", mimeType |-> <<>>]

\* httpClient.Do fails: no response
DoFails ==
    /\ pc = "do"
    /\ net' = Append(net, ChatCall)
    /\ ReturnErr(otherErr(IF cancelled THEN "context canceled"
                          ELSE "transport"))
    /\ UNCHANGED <<hostEnv, arg, ret, deploy>>
    /\ UNCHANGED <<call, auth, reqModel, payload, sessionToken, workspaceID,
                   vendorConnectionID, model, conversionResult, jumaReq, resp,
                   stream, ctx, cancelled, cancelAt, cancelMid, status,
                   respBody, buffered, lines, scanErr, fullContent,
                   generatedImageURL, ppc, chunkIndex, pending, received,
                   consumerGone, outClosed, bodyClosed>>

\* httpClient.Do answers with a status outside 200-299; respBody is the
\* body the endpoint sends with it
DoRejected ==
    /\ pc = "do"
    /\ ~cancelled
    /\ net' = Append(net, ChatCall)
    /\ \E code \in ChatStatuses, b \in ErrorBodies :
          /\ ~Is2xx(code)
          /\ status' = code
          /\ respBody' = b
    /\ pc' = "errbody"
    /\ UNCHANGED <<hostEnv, arg, ret, deploy>>
    /\ UNCHANGED <<call, auth, reqModel, payload, sessionToken, workspaceID,
                   vendorConnectionID, model, conversionResult, jumaReq, err,
                   resp, stream, ctx, reporter, cancelled, cancelAt,
                   cancelMid, buffered, lines, scanErr, fullContent,
                   generatedImageURL, ppc, chunkIndex, pending, received,
                   consumerGone, outClosed, bodyClosed>>

\* what io.ReadAll returns of body: all of it, or the part read before
\* the read failed
ReadAll(body) == {SubSeq(body, 1, n) : n \in 0..Len(body)}

\* b, _ := io.ReadAll(httpResp.Body) of a rejected request: the error of
\* the read is dropped, the body is closed and what was read is returned
\* in a statusErr
ReadRejected ==
    /\ pc = "errbody"
    /\ \E b \in ReadAll(respBody) : ReturnErr(statusErr(status, b))
    /\ bodyClosed' = bodyClosed + 1
    /\ UNCHANGED <<hostEnv, arg, ret, deploy>>
    /\ UNCHANGED <<call, auth, reqModel, payload, sessionToken, workspaceID,
                   vendorConnectionID, model, conversionResult, jumaReq, net,
                   resp, stream, ctx, cancelled, cancelAt, cancelMid, status,
                   respBody, buffered, lines, scanErr, fullContent,
                   generatedImageURL, ppc, chunkIndex, pending, received,
                   consumerGone, outClosed>>

\* httpClient.Do answers 2xx: Execute goes on to read the body, ExecuteStream
\* makes the channel, assigns it to its result and starts the producer,
\* which runs from then on beside the caller's way to its return
DoAccepted ==
    /\ pc = "do"
    /\ ~cancelled
    /\ net' = Append(net, ChatCall)
    /\ \E code \in ChatStatuses : Is2xx(code) /\ status' = code
    /\ IF call = "Execute"
       THEN pc' = "read" /\ UNCHANGED <<stream, ppc, reporter>>
       ELSE /\ pc' = "return" /\ stream' = "out" /\ ppc' = "scan"
            /\ UNCHANGED reporter
    /\ UNCHANGED <<hostEnv, arg, ret, deploy>>
    /\ UNCHANGED <<call, auth, reqModel, payload, sessionToken, workspaceID,
                   vendorConnectionID, model, conversionResult, jumaReq, err,
                   resp, ctx, cancelled, cancelAt, cancelMid,
                   respBody, buffered, lines, scanErr, fullContent,
                   generatedImageURL, chunkIndex, pending, received,
                   consumerGone, outClosed, bodyClosed>>

\* return stream, nil of ExecuteStream: the deferred trackFailure sees a nil
\* error and the caller holds the channel; the producer may have run its
\* first steps, up to a send, before
StreamReturn ==
    /\ pc = "return"
    /\ pc' = "returned"
    /\ reporter' = trackFailure(reporter, NoErr)
    /\ UNCHANGED <<hostEnv, arg, ret, deploy>>
    /\ UNCHANGED <<call, auth, reqModel, payload, sessionToken, workspaceID,
                   vendorConnectionID, model, conversionResult, jumaReq, net,
                   err, resp, stream, ctx, cancelled, cancelAt, cancelMid,
                   status, respBody, buffered, lines, scanErr, fullContent,
                   generatedImageURL, ppc, chunkIndex, pending, received,
                   consumerGone, outClosed, bodyClosed>>

----------------------------------------------------------------------------
(* Reading the body: bufio.Scanner over httpResp.Body *)

\* the errors a read of the body may fail with; a read fails with the
\* error of ctx only once ctx is done
ReadErrors ==
    {otherErr("read")}
    \cup (IF cancelled THEN {otherErr("context canceled")} ELSE {})

\* What one scanner.Scan() may give.  A line still in the scanner buffer is
\* returned without a read.  Otherwise the body is read, whether ctx is done
\* or not (bytes that arrived before the cancellation are still delivered):
\* the read brings one or more complete lines, the end of the body, or an
\* error.  A read that fails behind an unfinished line makes Scan return
\* that line: scanner.Err() holds the error from then on and the following
\* Scan returns false.  A line longer than the buffer gives ErrTooLong.
\* left is the number of lines that stay buffered.
ScanResults ==
    LET room == MaxLines - Len(lines)
        none == UpstreamLine(FALSE, "", "", <<>>, <<>>)
    IN  IF scanErr # NoErr
        THEN {[kind |-> "err", line |-> none, left |-> 0, err |-> scanErr]}
        ELSE IF buffered > 0
        THEN {[kind |-> "line", line |-> l, left |-> buffered - 1,
               err |-> NoErr] : l \in UpstreamLines}
        ELSE {[kind |-> "eof", line |-> none, left |-> 0, err |-> NoErr]}
             \cup {[kind |-> "err", line |-> none, left |-> 0, err |-> e] :
                      e \in ReadErrors
                            \cup {otherErr("bufio.Scanner: token too long")}}
             \cup {[kind |-> "line", line |-> l, left |-> k - 1,
                    err |-> NoErr] :
                      l \in UpstreamLines, k \in 1..room}
             \cup {[kind |-> "line", line |-> l, left |-> 0, err |-> e] :
                      l \in UpstreamLines, e \in ReadErrors,
                      k \in 1..(IF room > 0 THEN 1 ELSE 0)}

\* a mutant of IsDone: no line ends the loop
IsDoneNever(l) == FALSE

IsDone(l) == l.prefix /\ l.data = "[DONE]"

\* a mutant of ExecuteLine: a delta replaces the content read so far
ExecuteLineLastDelta(acc, l) ==
    IF l.prefix /\ l.type = "text-delta"
    THEN [acc EXCEPT !.fullContent = l.delta]
    ELSE acc

\* a mutant of ExecuteLine: the delta of an event of any type is appended
ExecuteLineAnyType(acc, l) ==
    IF l.prefix THEN [acc EXCEPT !.fullContent = @ \o l.delta] ELSE acc

\* the body of the read loop of Execute for a line that is not the terminator
ExecuteLine(acc, l) ==
    IF ~l.prefix THEN acc
    ELSE IF l.type = "text-delta"
    THEN [acc EXCEPT !.fullContent = @ \o l.delta]
    ELSE IF l.type = "tool-output-available" /\ l.imageUrl # <<>>
    THEN [acc EXCEPT !.generatedImageURL = l.imageUrl]
    ELSE acc

\* one iteration of the read loop of Execute
ExecScan ==
    /\ pc = "read"
    /\ \E r \in ScanResults :
          /\ buffered' = r.left
          /\ scanErr' = r.err
          /\ IF r.kind = "line"
             THEN /\ lines' = Append(lines, r.line)
                  /\ IF IsDone(r.line)
                     THEN pc' = "finish"
                          /\ UNCHANGED <<fullContent, generatedImageURL>>
                     ELSE LET acc == ExecuteLine(
                                  [fullContent |-> fullContent,
                                   generatedImageURL |-> generatedImageURL],
                                  r.line)
                          IN  /\ pc' = "read"
                              /\ fullContent' = acc.fullContent
                              /\ generatedImageURL' = acc.generatedImageURL
             ELSE /\ pc' = "finish"
                  /\ UNCHANGED <<lines, fullContent, generatedImageURL>>
    /\ UNCHANGED <<hostEnv, arg, ret, deploy>>
    /\ UNCHANGED <<call, auth, reqModel, payload, sessionToken, workspaceID,
                   vendorConnectionID, model, conversionResult, jumaReq, net,
                   err, resp, stream, ctx, reporter, cancelled, cancelAt,
                   cancelMid, status, respBody, ppc, chunkIndex, pending,
                   received, consumerGone, outClosed, bodyClosed>>

\* a mutant of WithImage: the blank line is written before every image
WithImageAlwaysSeparated(content, imageURL) ==
    IF imageURL = <<>> THEN content
    ELSE content \o <<"\n\n">> \o ImageMarkdown(imageURL)

\* fullContent after the image markdown was appended
WithImage(content, imageURL) ==
    IF imageURL = <<>> THEN content
    ELSE (IF content # <<>> THEN content \o <<"\n\n">> ELSE content)
         \o ImageMarkdown(imageURL)

\* the response Execute builds after a clean read
ExecuteResponse(alias, content, imageURL) ==
    IF isNanobananaModel(alias) /\ imageURL # <<>>
    THEN buildOpenAIImageResponse(imageURL)
    ELSE buildOpenAIChatResponse(alias, WithImage(content, imageURL))

\* a mutant of ExecFinish: the response is built from what was read even
\* when the read failed
ExecFinishPartial ==
    /\ pc = "finish"
    /\ fullContent' = WithImage(fullContent, generatedImageURL)
    /\ reporter' = trackFailure(ensurePublished(reporter), NoErr)
    /\ resp' = ExecuteResponse(reqModel, fullContent, generatedImageURL)
    /\ pc' = "returned"
    /\ UNCHANGED err
    /\ bodyClosed' = bodyClosed + 1
    /\ UNCHANGED <<hostEnv, arg, ret, deploy>>
    /\ UNCHANGED <<call, auth, reqModel, payload, sessionToken, workspaceID,
                   vendorConnectionID, model, conversionResult, jumaReq, net,
                   stream, ctx, cancelled, cancelAt, cancelMid, status,
                   respBody, buffered, lines, scanErr, generatedImageURL, ppc,
                   chunkIndex, pending, received, consumerGone, outClosed>>

\* Execute after the read loop: scanner.Err(), ensurePublished, the response,
\* and the deferred Body.Close and trackFailure
ExecFinish ==
    /\ pc = "finish"
    /\ fullContent' = WithImage(fullContent, generatedImageURL)
    /\ IF scanErr # NoErr
       THEN ReturnErr(scanErr) /\ UNCHANGED resp
       ELSE /\ reporter' = trackFailure(ensurePublished(reporter), NoErr)
            /\ resp' = ExecuteResponse(reqModel, fullContent,
                                       generatedImageURL)
            /\ pc' = "returned"
            /\ UNCHANGED err
    /\ bodyClosed' = bodyClosed + 1
    /\ UNCHANGED <<hostEnv, arg, ret, deploy>>
    /\ UNCHANGED <<call, auth, reqModel, payload, sessionToken, workspaceID,
                   vendorConnectionID, model, conversionResult, jumaReq, net,
                   stream, ctx, cancelled, cancelAt, cancelMid, status,
                   respBody, buffered, lines, scanErr, generatedImageURL, ppc,
                   chunkIndex, pending, received, consumerGone, outClosed>>

----------------------------------------------------------------------------
(* The producer goroutine of ExecuteStream and the consumer of its channel *)

\* a mutant of NextIndex: the index stands still
SameIndex(index) == index

\* chunkIndex++
NextIndex(index) == index + 1

\* a mutant of StreamChunkFor: an image chunk is built for every line that
\* is no text delta
StreamChunkForEveryLine(l, m, index) ==
    IF l.prefix /\ l.type = "text-delta"
    THEN buildOpenAIStreamChunk(m, transformGeneratedImageTags(l.delta),
                                index)
    ELSE buildOpenAIStreamChunk(m, <<"\n\n">> \o ImageMarkdown(l.imageUrl),
                                index)

\* the chunk the producer builds for a line that is not the terminator;
\* NoItem when the line yields no chunk
StreamChunkFor(l, m, index) ==
    IF ~l.prefix THEN NoItem
    ELSE IF l.type = "text-delta"
    THEN buildOpenAIStreamChunk(m, transformGeneratedImageTags(l.delta),
                                index)
    ELSE IF l.type = "tool-output-available" /\ l.imageUrl # <<>>
    THEN buildOpenAIStreamChunk(m, <<"\n\n">> \o ImageMarkdown(l.imageUrl),
                                index)
    ELSE NoItem

\* a mutant of SendOrScan: the producer scans on without waiting for the
\* consumer
SendOrScanBuffered(chunk) ==
    /\ pending' = chunk
    /\ ppc' = "scan"

\* where the producer goes with the chunk of a line: a line without a chunk
\* takes it back to scanner.Scan()
SendOrScan(chunk) ==
    /\ pending' = chunk
    /\ ppc' = IF chunk = NoItem THEN "scan" ELSE "send"

\* one scanner.Scan() of the producer loop, up to the send it blocks on
ProdScan ==
    /\ ppc = "scan"
    /\ \E r \in ScanResults :
          /\ buffered' = r.left
          /\ scanErr' = r.err
          /\ IF r.kind = "line"
             THEN /\ lines' = Append(lines, r.line)
                  /\ IF IsDone(r.line)
                     THEN ppc' = "after" /\ UNCHANGED pending
                     ELSE SendOrScan(StreamChunkFor(r.line, reqModel,
                                                    chunkIndex))
             ELSE /\ ppc' = "after"
                  /\ UNCHANGED <<lines, pending>>
    /\ UNCHANGED <<hostEnv, arg, ret, deploy>>
    /\ UNCHANGED <<call, auth, reqModel, payload, pc, sessionToken,
                   workspaceID, vendorConnectionID, model, conversionResult,
                   jumaReq, net, err, resp, stream, ctx, reporter, cancelled,
                   cancelAt, cancelMid, status, respBody, fullContent,
                   generatedImageURL, chunkIndex, received, consumerGone,
                   outClosed, bodyClosed>>

\* a mutant of AfterLoop: a scanner error is published and not sent
AfterLoopSilent(e) == "ensure"

\* if errScan := scanner.Err(); errScan != nil: where the producer goes
AfterLoop(e) == IF e # NoErr THEN "senderr" ELSE "ensure"

\* after the loop: a scanner error is published as a failure and the
\* producer turns to sending it
ProdAfter ==
    /\ ppc = "after"
    /\ ppc' = AfterLoop(scanErr)
    /\ IF scanErr # NoErr
       THEN /\ reporter' = publishFailure(reporter)
            /\ pending' = ErrItem(scanErr)
       ELSE UNCHANGED <<reporter, pending>>
    /\ UNCHANGED <<hostEnv, arg, ret, deploy>>
    /\ UNCHANGED <<call, auth, reqModel, payload, pc, sessionToken,
                   workspaceID, vendorConnectionID, model, conversionResult,
                   jumaReq, net, err, resp, stream, ctx, cancelled, cancelAt,
                   cancelMid, status, respBody, buffered, lines, scanErr,
                   fullContent, generatedImageURL, chunkIndex, received,
                   consumerGone, outClosed, bodyClosed>>

\* out is unbuffered: a send completes when the consumer receives, which it
\* can once ExecuteStream returned the channel.  After a chunk the producer
\* increments chunkIndex and scans on; after the error item it goes on to
\* ensurePublished.
Receive ==
    /\ ppc \in {"send", "senderr"}
    /\ pc = "returned"
    /\ ~consumerGone
    /\ received' = Append(received, pending)
    /\ pending' = NoItem
    /\ IF ppc = "send"
       THEN chunkIndex' = NextIndex(chunkIndex) /\ ppc' = "scan"
       ELSE ppc' = "ensure" /\ UNCHANGED chunkIndex
    /\ UNCHANGED <<hostEnv, arg, ret, deploy>>
    /\ UNCHANGED <<call, auth, reqModel, payload, pc, sessionToken,
                   workspaceID, vendorConnectionID, model, conversionResult,
                   jumaReq, net, err, resp, stream, ctx, reporter, cancelled,
                   cancelAt, cancelMid, status, respBody, buffered, lines,
                   scanErr, fullContent, generatedImageURL, consumerGone,
                   outClosed, bodyClosed>>

\* reporter.ensurePublished(ctx) at the end of the goroutine
ProdEnsure ==
    /\ ppc = "ensure"
    /\ reporter' = ensurePublished(reporter)
    /\ ppc' = "closebody"
    /\ UNCHANGED <<hostEnv, arg, ret, deploy>>
    /\ UNCHANGED <<call, auth, reqModel, payload, pc, sessionToken,
                   workspaceID, vendorConnectionID, model, conversionResult,
                   jumaReq, net, err, resp, stream, ctx, cancelled, cancelAt,
                   cancelMid, status, respBody, buffered, lines, scanErr,
                   fullContent, generatedImageURL, chunkIndex, pending,
                   received, consumerGone, outClosed, bodyClosed>>

\* a mutant of ProdCloseBody: the body is left open
ProdCloseBodySkipped ==
    /\ ppc = "closebody"
    /\ ppc' = "closeout"
    /\ UNCHANGED <<hostEnv, arg, ret, deploy>>
    /\ UNCHANGED <<call, auth, reqModel, payload, pc, sessionToken,
                   workspaceID, vendorConnectionID, model, conversionResult,
                   jumaReq, net, err, resp, stream, ctx, reporter, cancelled,
                   cancelAt, cancelMid, status, respBody, buffered, lines,
                   scanErr, fullContent, generatedImageURL, chunkIndex,
                   pending, received, consumerGone, outClosed, bodyClosed>>

\* the deferred httpResp.Body.Close()
ProdCloseBody ==
    /\ ppc = "closebody"
    /\ bodyClosed' = bodyClosed + 1
    /\ ppc' = "closeout"
    /\ UNCHANGED <<hostEnv, arg, ret, deploy>>
    /\ UNCHANGED <<call, auth, reqModel, payload, pc, sessionToken,
                   workspaceID, vendorConnectionID, model, conversionResult,
                   jumaReq, net, err, resp, stream, ctx, reporter, cancelled,
                   cancelAt, cancelMid, status, respBody, buffered, lines,
                   scanErr, fullContent, generatedImageURL, chunkIndex,
                   pending, received, consumerGone, outClosed>>

\* a mutant of ProdCloseOut: the goroutine returns and leaves out open
ProdCloseOutForgotten ==
    /\ ppc = "closeout"
    /\ ppc' = "done"
    /\ UNCHANGED <<hostEnv, arg, ret, deploy>>
    /\ UNCHANGED <<call, auth, reqModel, payload, pc, sessionToken,
                   workspaceID, vendorConnectionID, model, conversionResult,
                   jumaReq, net, err, resp, stream, ctx, reporter, cancelled,
                   cancelAt, cancelMid, status, respBody, buffered, lines,
                   scanErr, fullContent, generatedImageURL, chunkIndex,
                   pending, received, consumerGone, outClosed, bodyClosed>>

\* the deferred close(out)
ProdCloseOut ==
    /\ ppc = "closeout"
    /\ outClosed' = TRUE
    /\ ppc' = "done"
    /\ UNCHANGED <<hostEnv, arg, ret, deploy>>
    /\ UNCHANGED <<call, auth, reqModel, payload, pc, sessionToken,
                   workspaceID, vendorConnectionID, model, conversionResult,
                   jumaReq, net, err, resp, stream, ctx, reporter, cancelled,
                   cancelAt, cancelMid, status, respBody, buffered, lines,
                   scanErr, fullContent, generatedImageURL, chunkIndex,
                   pending, received, consumerGone, bodyClosed>>

\* the caller cancels ctx while the call or its producer is running
Cancel ==
    /\ ctx = "live"
    /\ ~cancelled
    /\ pc \in {"translate", "upload", "do", "errbody", "read", "return"}
       \/ ppc \notin {"none", "done"}
    /\ cancelled' = TRUE
    /\ cancelAt' = Len(received)
    /\ cancelMid' = (ppc \in {"scan", "send"})
    /\ UNCHANGED <<hostEnv, arg, ret, deploy>>
    /\ UNCHANGED <<call, auth, reqModel, payload, pc, sessionToken,
                   workspaceID, vendorConnectionID, model, conversionResult,
                   jumaReq, net, err, resp, stream, ctx, reporter, status,
                   respBody, buffered, lines, scanErr, fullContent,
                   generatedImageURL, ppc, chunkIndex, pending, received,
                   consumerGone, outClosed, bodyClosed>>

\* the consumer of a cancelled request stops receiving from the channel
ConsumerStop ==
    /\ cancelled
    /\ stream = "out"
    /\ pc = "returned"
    /\ ~consumerGone
    /\ ~outClosed
    /\ consumerGone' = TRUE
    /\ UNCHANGED <<hostEnv, arg, ret, deploy>>
    /\ UNCHANGED <<call, auth, reqModel, payload, pc, sessionToken,
                   workspaceID, vendorConnectionID, model, conversionResult,
                   jumaReq, net, err, resp, stream, ctx, reporter, cancelled,
                   cancelAt, cancelMid, status, respBody, buffered, lines,
                   scanErr, fullContent, generatedImageURL, ppc, chunkIndex,
                   pending, received, outClosed, bodyClosed>>

----------------------------------------------------------------------------
(* Specification *)

Next ==
    \/ Validate
    \/ Translate
    \/ TranslateOn
    \/ DoFails
    \/ DoRejected
    \/ ReadRejected
    \/ DoAccepted
    \/ StreamReturn
    \/ ExecScan
    \/ ExecFinish
    \/ ProdScan
    \/ ProdAfter
    \/ Receive
    \/ ProdEnsure
    \/ ProdCloseBody
    \/ ProdCloseOut
    \/ Cancel
    \/ ConsumerStop

Spec == Init /\ [][Next]_vars

\* the translator alone, under every answer of the remote hosts
NextTranslator == Validate \/ TranslateAny \/ TranslateOn

SpecTranslator == InitTranslator /\ [][NextTranslator]_vars

----------------------------------------------------------------------------
(* Functions called on their own: arg holds the arguments, ret the result *)

\* the state before function fn is called with one of args
InitCall(args) ==
    /\ call = "Execute"
    /\ ctx = "live"
    /\ auth = NilAuth
    /\ reqModel = AliasGPT
    /\ payload = Request(NilAuth, AliasGPT, <<>>).payload
    /\ Fresh
    /\ arg \in args
    /\ ret = NoCall
    /\ deploy = NoDeploy

\* function fn returns value
Returns(fn, value) ==
    /\ arg.fn = fn
    /\ ret = NoCall
    /\ ret' = [fn |-> fn, value |-> value]
    /\ UNCHANGED <<progVars, hostEnv, arg, deploy>>

\* the documents the negotiation endpoint may describe an asset with: a
\* declared type or none, an identifier or none, and at most one of the
\* correlation fields, blank or not
AssetTypes == {NoAttrs, Path("image.type", <<"Knowledge">>),
               Path("image.type", <<"Image">>)}

AssetIDs == {NoAttrs, Path("image.id", <<"A1">>)}

CorrelationFields ==
    {NoAttrs}
    \cup {Path(CandidateFields[i], v) :
             i \in 1..Len(CandidateFields),
             v \in {<<"K1">>, <<" ", "K1", " ">>, <<" ">>}}

\* two correlation fields, the first of them blank or not
CorrelationPairs ==
    {Path(CandidateFields[i], v) @@ Path(CandidateFields[j], w) :
        i \in 1..Len(CandidateFields), j \in 1..Len(CandidateFields),
        v \in {<<"K1">>, <<" ">>}, w \in {<<"K2">>, <<" ", "K2">>}}

AssetDocuments ==
    {t @@ i @@ c : t \in AssetTypes, i \in AssetIDs,
                   c \in CorrelationFields \cup CorrelationPairs}

\* extractJumaKnowledgeItemID as getJumaPresignedURL calls it: imageID is
\* the image.id of the document
CallExtractKnowledgeItemID ==
    Returns("extractJumaKnowledgeItemID",
            extractJumaKnowledgeItemID(arg.imageData,
                                       Get(arg.imageData, "image.id")))

InitCorrelate ==
    InitCall({[fn |-> "extractJumaKnowledgeItemID", imageData |-> d] :
                 d \in AssetDocuments})

NextCorrelate == CallExtractKnowledgeItemID

SpecCorrelate == InitCorrelate /\ [][NextCorrelate]_vars

\* a piece of text: its tokens, whether it is an image tag, the URL of the
\* tag and whether its two quotes are the same
Piece(text, tag, url, sameQuote) ==
    [text |-> text, tag |-> tag, url |-> url, sameQuote |-> sameQuote]

Plain(text) == Piece(text, FALSE, <<>>, FALSE)

\* the tag <generated-image url=...> with opening quote q1, closing quote q2,
\* white space gap after the name and ending close
Tag(q1, q2, url, gap, close) ==
    Piece(<<"<generated-image">> \o gap \o <<"url=", q1>> \o url \o <<q2>>
          \o close, TRUE, url, q1 = q2)

\* runs of text, tags in their spellings, and texts that start like a tag
\* and are none: no white space after the name, a vertical tab after the
\* name (which \s does not match), an empty URL, a character
\* after the closing quote, no url attribute, the name alone
Pieces ==
    { Plain(<<"a">>), Plain(<<" ">>), Plain(<<">">>), Plain(<<"\"">>),
      Tag("\"", "\"", <<"u">>, <<" ">>, <<">">>),
      Tag("'", "'", <<"u", "v">>, <<"\n", "\t">>, <<"/", ">">>),
      Tag("\"", "\"", <<"u">>, <<" ">>, <<" ", "/", ">">>),
      Tag("'", "'", <<"u">>, <<" ">>, <<">">>),
      Tag("\"", "'", <<"u">>, <<" ">>, <<">">>),
      Tag("'", "\"", <<"u">>, <<" ">>, <<"/", ">">>),
      Plain(<<"<generated-image", "url=", "\"", "u", "\"", ">">>),
      Plain(<<"<generated-image", VerticalTab, "url=", "\"", "u", "\"", ">">>),
      Plain(<<"<generated-image", " ", "url=", "\"", "\"", ">">>),
      Plain(<<"<generated-image", " ", "url=", "\"", "u", "\"", "a">>),
      Plain(<<"<generated-image", " ", "a", ">">>),
      Plain(<<"<generated-image">>) }

PieceLists == UNION {[1..n -> Pieces] : n \in 0..MaxPieces}

RECURSIVE Flatten(_)
\* the text a list of pieces stands for
Flatten(ps) == IF ps = <<>> THEN <<>> ELSE Head(ps).text \o Flatten(Tail(ps))

\* transformGeneratedImageTags applied to the text of the pieces of arg
CallTransformGeneratedImageTags ==
    Returns("transformGeneratedImageTags",
            transformGeneratedImageTags(Flatten(arg.pieces)))

InitRewrite ==
    InitCall({[fn |-> "transformGeneratedImageTags", pieces |-> ps] :
                 ps \in PieceLists})

NextRewrite == CallTransformGeneratedImageTags

SpecRewrite == InitRewrite /\ [][NextRewrite]_vars

\* data URLs and other texts handed to UploadImageToJuma: a PNG, a data URL
\* without comma, one whose data is no base64, and an https URL
UploadInputs ==
    { PngDataURL,
      [PngDataURL EXCEPT !.comma = FALSE],
      [PngDataURL EXCEPT !.data.base64 = FALSE],
      RemoteURL }

\* statuses of the storage endpoint; 0 stands for a request that got no
\* response
StorageStatuses == {0, 199, 200, 201, 202, 203, 204, 205, 206, 301, 403, 500}

\* an item that names no URL of the asset
NoURLItem ==
    [p \in DOMAIN KnowledgeItem \ {"image.imageUrl"} |-> KnowledgeItem[p]]

UploadEnvs ==
    [fetch : PlainFetchAnswers,
     negotiate : NegotiateAnswers
                 \cup {Negotiated(NoURLItem),
                       [transportErr |-> TRUE, status |-> 0, lines |-> <<>>]},
     transfer : StorageStatuses, now : {"1"}]

CallUploadImageToJuma ==
    Returns("UploadImageToJuma", UploadImageToJuma(arg.imageDataURL, arg.env))

InitUpload ==
    InitCall({[fn |-> "UploadImageToJuma", imageDataURL |-> u, env |-> e] :
                 u \in UploadInputs, e \in UploadEnvs})

NextUpload == CallUploadImageToJuma

SpecUpload == InitUpload /\ [][NextUpload]_vars

\* names of signed fields: five that fieldOrder knows and two it does not
FieldNames ==
    {"key", "Content-Type", "bucket", "Policy", "X-Amz-Signature", "acl",
     "success_action_status"}

FieldSets ==
    {[n \in names |-> IF n = "Content-Type" THEN ct ELSE "v"] :
        names \in SUBSET FieldNames, ct \in {ImagePng, ImageJpeg}}

CallUploadToJumaS3 ==
    \E order \in MapOrders(RemainingFields(arg.presignedData.Fields)) :
        Returns("uploadToJumaS3",
                [body |-> multipartBody(arg.presignedData.Fields,
                                        arg.mimeType, order),
                 ok |-> uploadToJumaS3(arg.status)])

InitTransfer ==
    InitCall({[fn |-> "uploadToJumaS3", presignedData |-> [Fields |-> f],
               mimeType |-> m, status |-> code] :
                 f \in FieldSets, m \in {ImagePng, ImageJpeg},
                 code \in TransferStatuses})

NextTransfer == CallUploadToJumaS3

SpecTransfer == InitTransfer /\ [][NextTransfer]_vars

\* an estimate of zero tokens, returned as a success
ZeroTokens ==
    [err |-> NoErr, net |-> <<>>,
     resp |-> [NoResp EXCEPT !.object = "token_count", !.content = <<"0">>]]

\* a mutant of CountTokens: an estimate is returned
CountTokensEstimate(a, req) == ZeroTokens

\* what CountTokens returns: cliproxyexecutor.Response{} and the error; net
\* lists the requests sent
TokenCountingUnsupported ==
    [err |-> otherErr("juma executor: token counting not supported"),
     net |-> <<>>,
     resp |-> NoResp]

\* JumaExecutor.CountTokens
CountTokens(a, req) == TokenCountingUnsupported

CallCountTokens == Returns("CountTokens", CountTokens(arg.auth, arg.req))

InitCountTokens ==
    InitCall({[fn |-> "CountTokens", auth |-> r.auth, req |-> r] :
                 r \in TranslatorRequests})

NextCountTokens == CallCountTokens

SpecCountTokens == InitCountTokens /\ [][NextCountTokens]_vars

----------------------------------------------------------------------------
(* Properties *)

\* the alias is that of a catalog entry, letter case aside
InCatalog(alias) ==
    \E i \in 1..Len(jumaModels) : Fold(jumaModels[i].Alias) = Fold(alias)

Unauthorized ==
    statusErr(StatusUnauthorized, <<"missing Juma session token">>)

UnknownModel(alias) ==
    statusErr(StatusBadRequest, <<"unknown Juma model: ", alias>>)

\* the call never got past its validation: nothing was sent, no stream was
\* handed out and no producer was started
NothingSent ==
    /\ net = <<>>
    /\ stream = "nil"
    /\ ppc = "none"
    /\ pc \in {"start", "returned"}

\* C1: when the credential carries no session token (auth record absent,
\* attributes absent, token absent, empty or white space only), Execute and
\* ExecuteStream fail with the Unauthorized error (401), no network call of
\* any kind is ever made, and ExecuteStream returns no stream handle.
C1_MissingTokenUnauthorized ==
    auth \in TokenlessAuths =>
        /\ NothingSent
        /\ pc = "returned" => err = Unauthorized

\* C1 witness: ExecuteStream returned for a token of white space only
C1_Witness ==
    /\ call = "ExecuteStream"
    /\ pc = "returned"
    /\ auth = Auth([session_token |-> <<"\n", "\t", VerticalTab>>,
           workspace_id |-> <<"w">>])

\* C2 as claimed: for any request whose alias is not in the catalog, the
\* call fails with the UnknownModel error and issues no HTTP request.
C2_UnknownModelAnyCredential ==
    ~InCatalog(reqModel) =>
        /\ NothingSent
        /\ pc = "returned" => err = UnknownModel(reqModel)

\* C2 amended: for any request whose credential carries a session token and
\* whose alias is not in the catalog, Execute and ExecuteStream fail with
\* the UnknownModel error and issue no HTTP request.
C2_UnknownModelWithToken ==
    (~InCatalog(reqModel) /\ auth \notin TokenlessAuths) =>
        /\ NothingSent
        /\ pc = "returned" => err = UnknownModel(reqModel)

\* C2 witness: ExecuteStream returned for an unknown alias, a full credential
\* and a request that carries an image
C2_Witness ==
    /\ call = "ExecuteStream"
    /\ pc = "returned"
    /\ reqModel = UnknownAlias
    /\ auth = FullAuth
    /\ ImageSlots(payload) # {}

\* the items of a sequence of channel items that are data chunks
Chunks(items) == SelectSeq(items, LAMBDA it : it.kind = "chunk")

\* C3: the k-th data chunk placed on the output channel carries index k,
\* counting from 0 and counting text chunks and image chunks together; the
\* chunk the producer is blocked sending carries the next index.
C3_ChunkIndexIsPosition ==
    /\ \A k \in 1..Len(Chunks(received)) : Chunks(received)[k].index = k - 1
    /\ pending.kind = "chunk" => pending.index = Len(Chunks(received))

\* C3 witness: a text chunk and an image chunk were received, with an
\* ignored line between the two lines they come from
C3_Witness ==
    /\ Len(lines) = 3
    /\ lines[1].prefix /\ lines[1].type = "text-delta"
    /\ ~lines[2].prefix
    /\ lines[3].prefix /\ lines[3].type = "tool-output-available"
    /\ Len(received) = 2
    /\ received[2].kind = "chunk"

\* the text the chunk of an upstream line carries, as a sequence of zero or
\* one texts
LineText(l) ==
    IF l.prefix /\ l.type = "text-delta"
    THEN <<transformGeneratedImageTags(l.delta)>>
    ELSE IF l.prefix /\ l.type = "tool-output-available" /\ l.imageUrl # <<>>
    THEN << <<"\n\n", "![Generated Image](">> \o l.imageUrl \o <<")">> >>
    ELSE <<>>

RECURSIVE LineTexts(_)
\* the texts of the chunks of a sequence of upstream lines, up to the
\* terminator
LineTexts(ls) ==
    IF ls = <<>> \/ IsDone(Head(ls)) THEN <<>>
    ELSE LineText(Head(ls)) \o LineTexts(Tail(ls))

\* the texts of the chunks delivered or being sent
SentTexts ==
    [k \in 1..Len(Chunks(received)) |-> Chunks(received)[k].delta]
    \o (IF pending.kind = "chunk" THEN <<pending.delta>> ELSE <<>>)

\* C4: the chunks delivered, followed by the one being sent, are exactly the
\* chunks of the upstream lines read so far, one per chunk-bearing line, in
\* the order of the lines: no chunk is out of order, dropped before a later
\* one is sent, or sent twice.
C4_ChunksInLineOrder ==
    call = "ExecuteStream" => SentTexts = LineTexts(lines)

\* C4 witness: two chunks were received from three lines, the two texts
\* being different
C4_Witness ==
    /\ Len(lines) = 3
    /\ Len(Chunks(received)) = 2
    /\ received[1].delta # received[2].delta
    /\ outClosed

\* C5 as claimed: when the caller cancels while the producer of
\* ExecuteStream is streaming, no data chunk built from a line read after
\* the cancellation is delivered (the one chunk being sent at the moment of
\* the cancellation aside), and the producer is never left blocked on a send
\* nobody will receive, so that it can go on to close the channel.
C5_CancelEndsStream ==
    cancelMid =>
        /\ \A k \in (cancelAt + 2)..Len(received) : received[k].kind # "chunk"
        /\ ~(consumerGone /\ ppc \in {"send", "senderr"})

\* s is an initial part of t
IsPrefix(s, t) == Len(s) <= Len(t) /\ SubSeq(t, 1, Len(s)) = s

\* the chat endpoint answered ExecuteStream with a status outside 200-299
StreamRejected ==
    call = "ExecuteStream" /\ status # 0 /\ (status < 200 \/ status > 299)

\* no stream handle, no producer, no chunk
NothingStreamed ==
    /\ stream = "nil"
    /\ ppc = "none"
    /\ received = <<>>
    /\ pending = NoItem
    /\ ~outClosed

\* C6 as claimed: when the chat endpoint answers ExecuteStream with a status
\* outside 200-299, the call returns an upstream HTTP error carrying that
\* status and the raw body the endpoint sent, with no stream handle, no
\* producer started and no chunk built or delivered.
C6_RejectedCarriesBody ==
    StreamRejected =>
        /\ pc \in {"errbody", "returned"}
        /\ pc = "returned" => err = statusErr(status, respBody)
        /\ NothingStreamed

\* C6 amended: when the chat endpoint answers ExecuteStream with a status
\* outside 200-299, the call reads the body and returns an upstream HTTP
\* error carrying that status and the body as far as it could be read (all
\* of it unless the read failed), with no stream handle, no producer
\* started and no chunk built or delivered.
C6_RejectedBeforeStreaming ==
    StreamRejected =>
        /\ pc \in {"errbody", "returned"}
        /\ pc = "returned" =>
              /\ err.kind = "statusErr"
              /\ err.code = status
              /\ IsPrefix(err.msg, respBody)
        /\ NothingStreamed

\* C6 witness: ExecuteStream was answered 300 with a body that is not empty
\* and returned it
C6_Witness ==
    /\ call = "ExecuteStream"
    /\ status = 300
    /\ respBody = <<"e">>
    /\ pc = "returned"
    /\ err = statusErr(300, <<"e">>)
    /\ stream = "nil"

\* the producer has left the statement that publishes a read error
PastAfter == ppc \in {"senderr", "ensure", "closebody", "closeout", "done"}

\* C7: when reading the upstream body fails during streaming, the failure
\* is reported to the reporter, the error is put on the channel as one
\* error-bearing item, no item follows it, every item before it is a data
\* chunk, and the channel is closed only after it was delivered.
C7_ReadErrorIsLastItem ==
    /\ \A k \in 1..(Len(received) - 1) : received[k].kind = "chunk"
    /\ (call = "ExecuteStream" /\ scanErr # NoErr /\ PastAfter) =>
          /\ FailureReports(reporter)
                = <<ReporterCall("publishFailure", TRUE)>>
          /\ IF ppc = "senderr"
             THEN /\ pending = ErrItem(scanErr)
                  /\ Chunks(received) = received
             ELSE /\ pending = NoItem
                  /\ received # <<>>
                  /\ received[Len(received)] = ErrItem(scanErr)

\* C7 witness: the channel was closed after one chunk and the item of a
\* read error that no cancellation caused
C7_Witness ==
    /\ outClosed
    /\ ~cancelled
    /\ scanErr = otherErr("read")
    /\ Len(received) = 2
    /\ received[2].kind = "err"

\* C8: every failed call of Execute or ExecuteStream, whichever the stage
\* that failed, has made exactly one call on the reporter that notifies a
\* failure; so has a stream whose producer met a read error.  No call makes
\* two of them, whatever else it calls on the reporter.
C8_OneFailureReport ==
    /\ Len(FailureReports(reporter)) <= 1
    /\ (pc = "returned" /\ err # NoErr) =>
          FailureReports(reporter) = <<ReporterCall("trackFailure", TRUE)>>
    /\ (call = "ExecuteStream" /\ scanErr # NoErr /\ PastAfter) =>
          FailureReports(reporter)
              = <<ReporterCall("publishFailure", TRUE)>>

\* C8 witness: the stream of an ExecuteStream that returned without error
\* was closed after a read error: the deferred trackFailure saw no error,
\* the producer called publishFailure and after it ensurePublished
C8_Witness ==
    /\ call = "ExecuteStream"
    /\ outClosed
    /\ scanErr = otherErr("read")
    /\ reporter.reports = <<ReporterCall("trackFailure", FALSE),
                            ReporterCall("publishFailure", TRUE),
                            ReporterCall("ensurePublished", FALSE)>>

\* Execute returned the error of a failed read of the body after one call
\* on the reporter, the deferred trackFailure
C8_ExecuteReadError ==
    /\ call = "Execute"
    /\ pc = "returned"
    /\ err = otherErr("read")
    /\ lines # <<>>
    /\ reporter.reports = <<ReporterCall("trackFailure", TRUE)>>

\* the upstream lines are text deltas followed by the terminator
TextDeltasThenDone(ls) ==
    /\ ls # <<>>
    /\ IsDone(ls[Len(ls)])
    /\ \A k \in 1..(Len(ls) - 1) : ls[k].prefix /\ ls[k].type = "text-delta"

RECURSIVE ConcatDeltas(_)
\* the deltas of a sequence of text-delta lines, concatenated
ConcatDeltas(ls) ==
    IF ls = <<>> \/ IsDone(Head(ls)) THEN <<>>
    ELSE Head(ls).delta \o ConcatDeltas(Tail(ls))

HasImageTag(s) == \E k \in 1..Len(s) : s[k] = "<generated-image"

\* Execute returned a response for text deltas followed by the terminator
BufferedTextReturned ==
    /\ call = "Execute"
    /\ pc = "returned"
    /\ err = NoErr
    /\ TextDeltasThenDone(lines)

\* C9 as claimed: for text deltas followed by the terminator, the content
\* of the buffered response is the concatenation of the deltas in arrival
\* order.
C9_ContentIsConcatenation ==
    BufferedTextReturned => resp.content = ConcatDeltas(lines)

\* C9 amended: for text deltas followed by the terminator, the content of
\* the buffered response is the concatenation of the deltas in arrival order
\* with every generated-image tag in it rewritten to a markdown image; it is
\* the concatenation itself when no delta holds the opening of such a tag.
C9_ContentIsRewrittenConcatenation ==
    BufferedTextReturned =>
        /\ resp.object = "chat.completion"
        /\ resp.content = transformGeneratedImageTags(ConcatDeltas(lines))
        /\ ~HasImageTag(ConcatDeltas(lines)) =>
              resp.content = ConcatDeltas(lines)

\* C9 witness: Execute returned for two text deltas and the terminator
C9_Witness ==
    /\ BufferedTextReturned
    /\ Len(lines) = 3
    /\ lines[1].delta = <<"a">>
    /\ lines[2].delta = <<"a">>
    /\ resp.content = <<"a", "a">>

\* the translator ran and exactly one image was uploaded, with an asset id
\* and a public URL
OneUpload ==
    /\ jumaReq.IsNewThread
    /\ Len(conversionResult.uploads) = 1
    /\ conversionResult.uploads[1].ID # <<>>
    /\ conversionResult.uploads[1].ImageURL # <<>>

\* message m of the request lists the upload among its attachments
Attached(m, up) ==
    \E k \in 1..Len(m.UploadedImages) :
        /\ m.UploadedImages[k].ID = up.ID
        /\ m.UploadedImages[k].ImageURL = up.ImageURL

\* C10 as claimed: after the upload of one image that produced asset id A1
\* and correlation id K1, a message of the provider request lists A1 and the
\* public URL among its attachments, and the request has exactly one
\* knowledge entry, whose id is K1.
C10_KnowledgeEntryIsCorrelationId ==
    OneUpload =>
        /\ \E i \in 1..Len(jumaReq.Messages) :
              Attached(jumaReq.Messages[i], conversionResult.uploads[1])
        /\ Len(jumaReq.KnowledgeItems) = 1
        /\ jumaReq.KnowledgeItems[1].id =
              conversionResult.uploads[1].KnowledgeItemID

\* C11: when the correlation identifier of an uploaded image came out
\* empty, the knowledge list of the provider request has no entry whose id
\* is the asset identifier of that image.
C11_NoEntryWithoutCorrelationId ==
    \A k \in 1..Len(conversionResult.uploads) :
        conversionResult.uploads[k].KnowledgeItemID = <<>> =>
            \A i \in 1..Len(jumaReq.KnowledgeItems) :
                jumaReq.KnowledgeItems[i].id # conversionResult.uploads[k].ID

\* C11 witness: the request was built after an upload whose three steps
\* succeeded and whose correlation identifier is empty
C11_Witness ==
    /\ jumaReq.IsNewThread
    /\ Len(conversionResult.uploads) = 1
    /\ conversionResult.uploads[1].KnowledgeItemID = <<>>
    /\ conversionResult.uploads[1].ImageURL # <<>>

\* the document holds none of the correlation fields
NoCorrelationField(d) ==
    \A i \in 1..Len(CandidateFields) : CandidateFields[i] \notin DOMAIN d

\* C12 as claimed: when the declared type of the negotiated asset is not
\* the knowledge category and the negotiation response holds none of the
\* correlation fields, the correlation identifier returned is empty.
C12_NoFieldGivesEmpty ==
    (/\ ret.fn = "extractJumaKnowledgeItemID"
     /\ Get(arg.imageData, "image.type") # <<"Knowledge">>
     /\ NoCorrelationField(arg.imageData)) => ret.value = <<>>

\* the upload the asset with this id and URL comes from: one of the uploads
\* that returned a result, with a correlation identifier
UploadOf(id, url) ==
    \E k \in 1..Len(conversionResult.uploads) :
        /\ conversionResult.uploads[k].ID = id
        /\ url \in {<<>>, conversionResult.uploads[k].ImageURL}
        /\ conversionResult.uploads[k].KnowledgeItemID # <<>>

\* the image parts whose negotiation was answered 200 and whose transfer
\* was answered 200, 201, 202 or 204
CompletedSlots ==
    {sl \in DOMAIN hostEnv :
        /\ hostEnv[sl].negotiate.status = 200
        /\ hostEnv[sl].transfer \in {200, 201, 202, 204}}

\* C13: in every provider request, each asset of a message's attachment
\* list and each asset of the knowledge list comes from an upload that
\* returned a result with a non-empty correlation identifier, and there are
\* no more of them than image parts whose three upload steps completed.
C13_ReferencedAssetsWereUploaded ==
    /\ \A i \in 1..Len(jumaReq.Messages) :
          \A k \in 1..Len(jumaReq.Messages[i].UploadedImages) :
              UploadOf(jumaReq.Messages[i].UploadedImages[k].ID,
                       jumaReq.Messages[i].UploadedImages[k].ImageURL)
    /\ \A i \in 1..Len(jumaReq.KnowledgeItems) :
          UploadOf(jumaReq.KnowledgeItems[i].id, <<>>)
    /\ Len(conversionResult.UploadedImages) <= Cardinality(CompletedSlots)
    /\ Len(jumaReq.KnowledgeItems) <= Cardinality(CompletedSlots)

\* C13 witness: of two images one was uploaded and is referenced, with a
\* correlation identifier that is not its asset identifier; the transfer of
\* the other was refused
C13_Witness ==
    /\ Cardinality(DOMAIN hostEnv) = 2
    /\ Cardinality(CompletedSlots) = 1
    /\ Len(jumaReq.KnowledgeItems) = 1
    /\ Len(conversionResult.uploads) = 1
    /\ conversionResult.uploads[1].KnowledgeItemID = <<"K1">>
    /\ \E sl \in DOMAIN hostEnv : hostEnv[sl].transfer = 403

\* the image parts with an http(s) URL whose fetch was answered with the
\* content type text/html
RejectedSlots ==
    {sl \in DOMAIN hostEnv :
        /\ payload.messages[sl[1]].content.parts[sl[2]].url.scheme
              \in {"http", "https"}
        /\ hostEnv[sl].fetch.contentType = TextHtml}

\* the requests of one kind sent so far
Sent(kind) == Cardinality({k \in 1..Len(net) : net[k].kind = kind})

\* the image parts left once the rejected ones are taken away
NotRejected == Cardinality(DOMAIN hostEnv) - Cardinality(RejectedSlots)

\* C14: a remote image whose fetch is answered with a content type that is
\* no image type is rejected before upload: negotiation requests, storage
\* transfers, attachments and knowledge entries are at most as many as the
\* image parts that were not rejected.
C14_NonImageNeverUploaded ==
    /\ Sent("negotiate") <= NotRejected
    /\ Sent("transfer") <= NotRejected
    /\ Len(conversionResult.UploadedImages) <= NotRejected
    /\ Len(jumaReq.KnowledgeItems) <= NotRejected
    /\ \A i \in 1..Len(jumaReq.Messages) :
          Len(jumaReq.Messages[i].UploadedImages) <= NotRejected

\* C14 witness: of two images the remote one was answered text/html and the
\* other was uploaded and attached
C14_Witness ==
    /\ Cardinality(DOMAIN hostEnv) = 2
    /\ Cardinality(RejectedSlots) = 1
    /\ Sent("fetch") = 1
    /\ Sent("negotiate") = 1
    /\ Sent("transfer") = 1
    /\ Len(jumaReq.KnowledgeItems) = 1

RECURSIVE Rewritten(_, _)
\* the text of a list of pieces with each tag replaced by the markdown image
\* of its URL; mixed says whether a tag may close with the other quote
Rewritten(ps, mixed) ==
    IF ps = <<>> THEN <<>>
    ELSE (IF Head(ps).tag /\ (mixed \/ Head(ps).sameQuote)
          THEN <<"![Generated Image](">> \o Head(ps).url \o <<")">>
          ELSE Head(ps).text) \o Rewritten(Tail(ps), mixed)

\* C15 as claimed: the markup rewrite replaces each tag
\* <generated-image url="U">, in single or in double quotes, with or without
\* a closing slash, by ![Generated Image](U) and leaves all other text as it
\* is; a text that opens the URL with one quote and closes it with the other
\* is not such a tag and is left as it is.
C15_SameQuoteTagsRewritten ==
    ret.fn = "transformGeneratedImageTags" =>
        ret.value = Rewritten(arg.pieces, FALSE)

\* C15 amended: the markup rewrite replaces each tag <generated-image
\* url=qUq'> where q and q' are each a single or a double quote, the same or
\* not, U holds no quote and is not empty, with white space after the name
\* and optional white space and slash before ">", by ![Generated Image](U)
\* and leaves all other text as it is and in its order; text without such
\* a tag is returned unchanged.
C15_TagsRewritten ==
    ret.fn = "transformGeneratedImageTags" =>
        /\ ret.value = Rewritten(arg.pieces, TRUE)
        /\ (\A k \in 1..Len(arg.pieces) : ~arg.pieces[k].tag) =>
              ret.value = Flatten(arg.pieces)

\* C15 witness: a text with a double-quoted tag, a run of text and a
\* single-quoted tag with a closing slash was rewritten
C15_Witness ==
    /\ ret.fn = "transformGeneratedImageTags"
    /\ Len(arg.pieces) = 3
    /\ arg.pieces[1] = Tag("\"", "\"", <<"u">>, <<" ">>, <<">">>)
    /\ arg.pieces[2] = Plain(<<"a">>)
    /\ arg.pieces[3] = Tag("'", "'", <<"u", "v">>, <<"\n", "\t">>, <<"/", ">">>)
    /\ ret.value = <<"![Generated Image](", "u", ")", "a",
                     "![Generated Image](", "u", "v", ")">>

\* C16 as claimed: for every request that resolves to the image-edit
\* variant of the catalog, the first message of the provider request is the
\* synthetic system message, no message of the caller with the system role
\* is kept, and the tools are the one function ImageEdit with prompt
\* required and imageUrls and orientation optional; for a request that
\* resolves to another model every message of the caller is kept with its
\* role, none is added and no tool is declared.
C16_ImageEditVariantForcesTool ==
    jumaReq.IsNewThread =>
        IF model.Name = "Nanobanana Pro"
        THEN /\ jumaReq.Messages # <<>>
             /\ jumaReq.Messages[1].Role = "system"
             /\ jumaReq.Messages[1].Content = SystemPromptText
             /\ \A i \in 2..Len(jumaReq.Messages) :
                   jumaReq.Messages[i].Role # "system"
             /\ Len(jumaReq.Tools) = 1
             /\ jumaReq.Tools[1].Type = "function"
             /\ jumaReq.Tools[1].Name = "ImageEdit"
             /\ jumaReq.Tools[1].Required = {"prompt"}
             /\ jumaReq.Tools[1].Properties
                   = {"prompt", "imageUrls", "orientation"}
        ELSE /\ Len(jumaReq.Messages) = Len(payload.messages)
             /\ \A i \in 1..Len(jumaReq.Messages) :
                   jumaReq.Messages[i].Role = payload.messages[i].role
             /\ jumaReq.Tools = <<>>

\* a line read before the terminator carried an image URL
ImageProduced ==
    \E k \in 1..Len(lines) :
        /\ lines[k].prefix
        /\ lines[k].type = "tool-output-available"
        /\ lines[k].imageUrl # <<>>

\* C17 as claimed: a successful buffered Execute returns the image response
\* shape, with the image URL, exactly when the request resolves to the
\* image-output variant and an upstream event carried a non-empty image URL;
\* in every other successful case it returns the chat-completion shape.
C17_ImageShapeForImageVariant ==
    (call = "Execute" /\ pc = "returned" /\ err = NoErr) =>
        IF model.Name = "Nanobanana Pro" /\ ImageProduced
        THEN resp.object = "image" /\ resp.url # <<>>
        ELSE resp.object = "chat.completion"

\* the kinds of the requests an upload sent, in order
UploadSteps == [k \in 1..Len(ret.value.net) |-> ret.value.net[k].kind]

\* the negotiation endpoint answered 200 with a line that holds the marker,
\* the asset, its URL and the upload target
NegotiationYielded(r) ==
    /\ ~r.transportErr
    /\ r.status = 200
    /\ \E k \in 1..Len(r.lines) :
          /\ r.lines[k].marker
          /\ r.lines[k].exists
          /\ "image.imageUrl" \in DOMAIN r.lines[k].item
          /\ "presignedUrl" \in DOMAIN r.lines[k].item

TransferAccepted(code) == code \in {200, 201, 202, 204}

\* C18: an upload sends the negotiation request first and the transfer
\* second; the transfer is sent only after the negotiation yielded an
\* upload target, an asset is returned only after the transfer was accepted,
\* and when a step fails the upload fails, returns no asset and sends
\* nothing more.
C18_UploadStepsInOrder ==
    ret.fn = "UploadImageToJuma" =>
        /\ UploadSteps \in {<<>>, <<"negotiate">>, <<"negotiate", "transfer">>}
        /\ UploadSteps = <<>> => ~ret.value.ok
        /\ UploadSteps = <<"negotiate">> =>
              ~NegotiationYielded(arg.env.negotiate) /\ ~ret.value.ok
        /\ UploadSteps = <<"negotiate", "transfer">> =>
              NegotiationYielded(arg.env.negotiate)
        /\ ret.value.ok =>
              /\ UploadSteps = <<"negotiate", "transfer">>
              /\ TransferAccepted(arg.env.transfer)
        /\ ~ret.value.ok => ret.value.result = NoUpload
        /\ arg.imageDataURL = PngDataURL => UploadSteps # <<>>

\* C18 witness: an upload returned an asset after both requests
C18_Witness ==
    /\ ret.fn = "UploadImageToJuma"
    /\ ret.value.ok
    /\ ret.value.result.ID = <<"A1">>
    /\ ret.value.result.KnowledgeItemID = <<"K1">>
    /\ UploadSteps = <<"negotiate", "transfer">>

\* C19: the transfer, and with it the upload, succeeds exactly when the
\* storage endpoint answers 200, 201, 202 or 204.
C19_TransferStatuses ==
    (ret.fn = "UploadImageToJuma"
     /\ UploadSteps = <<"negotiate", "transfer">>) =>
        (ret.value.ok <=> arg.env.transfer \in {200, 201, 202, 204})

\* C19 witness: an upload whose transfer was answered 202 succeeded
C19_Witness ==
    /\ ret.fn = "UploadImageToJuma"
    /\ arg.env.transfer = 202
    /\ ret.value.ok

\* the parts of the body a call of uploadToJumaS3 wrote
Body == ret.value.body

\* the positions of the parts of the body that carry the signed field n
PartsOf(n) ==
    {k \in 1..Len(Body) : Body[k].name = n /\ Body[k].filename = ""}

\* C20: in the body of the transfer the field key comes first and
\* Content-Type next, both before every other signed field; each signed field
\* is written exactly once, with its value; the binary part is the last part.
C20_MultipartOrder ==
    ret.fn = "uploadToJumaS3" =>
        /\ Len(Body) = Cardinality(DOMAIN arg.presignedData.Fields) + 1
        /\ Body[Len(Body)] = CreatePart(arg.mimeType)
        /\ \A k \in 1..(Len(Body) - 1) :
              /\ Body[k].filename = ""
              /\ Body[k].name \in DOMAIN arg.presignedData.Fields
              /\ Body[k].value = arg.presignedData.Fields[Body[k].name]
        /\ \A n \in DOMAIN arg.presignedData.Fields :
              Cardinality(PartsOf(n)) = 1
        /\ \A k \in 1..(Len(Body) - 1) : \A j \in 1..(k - 1) :
              /\ Body[k].name # "key"
              /\ Body[k].name = "Content-Type" => Body[j].name = "key"

\* C20 witness: a body with all seven fields, two of them outside the known
\* order, and the file
C20_Witness ==
    /\ ret.fn = "uploadToJumaS3"
    /\ DOMAIN arg.presignedData.Fields = FieldNames
    /\ Body[1].name = "key"
    /\ Body[2].name = "Content-Type"
    /\ Body[6].name = "success_action_status"
    /\ Body[7].name = "acl"
    /\ Body[8].filename = "image.png"

\* C21: the content type declared on the file part of the transfer equals the
\* content type named in the signed fields.
C21_FilePartTypeIsSignedType ==
    (ret.fn = "uploadToJumaS3"
     /\ "Content-Type" \in DOMAIN arg.presignedData.Fields) =>
        Body[Len(Body)].contentType = arg.presignedData.Fields["Content-Type"]

\* a line without the data prefix, or an event that is neither the
\* terminator nor of a type the executor acts on
Ignored(l) ==
    \/ ~l.prefix
    \/ l.data # "[DONE]" /\ l.type \notin {"text-delta",
                                            "tool-output-available"}

\* the step read one more upstream line
ReadsLine == Len(lines') = Len(lines) + 1

\* C22: reading a line without the data prefix, or an event whose type is
\* neither text-delta nor tool-output-available, builds no chunk, leaves the
\* index, the accumulated content and the image URL as they were, raises no
\* error, and leaves the loop at its next scan.  (scanErr is the reader's
\* state, set by the scan that returned the line, not by the handling of the
\* line, and is no part of the statement.)
C22_IgnoredLinesChangeNothing ==
    [][(ReadsLine /\ Ignored(lines'[Len(lines')])) =>
          /\ pending' = NoItem
          /\ received' = received
          /\ chunkIndex' = chunkIndex
          /\ fullContent' = fullContent
          /\ generatedImageURL' = generatedImageURL
          /\ err' = NoErr
          /\ call = "Execute" => pc' = "read"
          /\ call = "ExecuteStream" => ppc' = "scan"]_vars

\* C22 witness: a line without prefix and an event of another type were read
\* and the text delta after them was delivered
C22_Witness ==
    /\ Len(lines) = 3
    /\ ~lines[1].prefix
    /\ lines[2].prefix /\ lines[2].type = "start"
    /\ lines[3].prefix /\ lines[3].type = "text-delta"
    /\ Len(received) = 1
    /\ received[1].delta = <<"a">>

\* an event of type tool-output-available
ToolOutput(l) ==
    l.prefix /\ l.data # "[DONE]" /\ l.type = "tool-output-available"

\* the chunk with the markdown image of url and the given index
ImageChunk(url, index) ==
    [kind |-> "chunk", model |-> reqModel,
     delta |-> <<"\n\n", "![Generated Image](">> \o url \o <<")">>,
     index |-> index, err |-> NoErr]

\* C23: in ExecuteStream, reading a tool-output-available event with an image
\* URL puts the producer at the send of one chunk with the markdown image of
\* that URL and the next index, before any further line is read, and the
\* index advances when the chunk is received; reading such an event without
\* a URL builds no chunk and leaves the index as it was.
C23_ImageChunkAtOnce ==
    [][/\ (call = "ExecuteStream" /\ ReadsLine
           /\ ToolOutput(lines'[Len(lines')])) =>
              IF lines'[Len(lines')].imageUrl # <<>>
              THEN /\ pending' = ImageChunk(lines'[Len(lines')].imageUrl,
                                            Len(Chunks(received)))
                   /\ ppc' = "send"
                   /\ received' = received
              ELSE /\ pending' = NoItem
                   /\ ppc' = "scan"
                   /\ chunkIndex' = chunkIndex
                   /\ received' = received
       /\ ppc = "send" =>
              /\ lines' = lines
              /\ received' # received =>
                     /\ received' = Append(received, pending)
                     /\ chunkIndex' = chunkIndex + 1]_vars

\* C23 witness: an image event, an image event without URL and a text delta
\* were read; the image chunk has index 0 and the text chunk index 1
C23_Witness ==
    /\ Len(lines) = 3
    /\ ToolOutput(lines[1]) /\ lines[1].imageUrl = <<"v">>
    /\ ToolOutput(lines[2]) /\ lines[2].imageUrl = <<>>
    /\ lines[3].prefix /\ lines[3].type = "text-delta"
    /\ Len(received) = 2
    /\ received[1] = ImageChunk(<<"v">>, 0)
    /\ received[2].index = 1

\* the number of chunks the upstream lines read so far call for
ChunksBuilt == Len(LineTexts(lines))

\* C24: the producer of ExecuteStream has built at most one chunk that the
\* consumer has not received, and while it has one it is blocked at its send:
\* whenever it is about to read a line, every chunk built was received.
C24_OneChunkInFlight ==
    call = "ExecuteStream" =>
        /\ ChunksBuilt <= Len(Chunks(received)) + 1
        /\ ChunksBuilt = Len(Chunks(received)) + 1 =>
              ppc = "send" /\ pending.kind = "chunk"
        /\ ppc = "scan" =>
              pending = NoItem /\ ChunksBuilt = Len(Chunks(received))

\* C24 witness: the producer is blocked sending its second chunk while the
\* next line is already in the scanner's buffer
C24_Witness ==
    /\ ppc = "send"
    /\ pending.kind = "chunk"
    /\ pending.index = 1
    /\ Len(received) = 1
    /\ Len(lines) = 2
    /\ buffered > 0

\* the number of chat requests sent to the upstream endpoint
ChatRequests == Cardinality({k \in 1..Len(net) : net[k].kind = "chat"})

\* C25: a call sends at most one chat request; once a transport error, a
\* status or a read error is known, exactly one was sent, and it is the last
\* request of the call.
C25_OneChatRequest ==
    /\ ChatRequests <= 1
    /\ (status # 0 \/ scanErr # NoErr
        \/ err.kind \in {"transport", "context canceled", "read"}) =>
          ChatRequests = 1 /\ net[Len(net)].kind = "chat"

\* C25 witness: ExecuteStream ended after a read error, Execute returned a
\* status error or a transport error, with one chat request sent
C25_Witness ==
    /\ ChatRequests = 1
    /\ \/ call = "ExecuteStream" /\ scanErr.kind = "read" /\ outClosed
       \/ call = "Execute" /\ pc = "returned" /\ err.kind = "statusErr"
          /\ status = 500
       \/ pc = "returned" /\ err.kind = "transport"

\* the terminator was read
TerminatorRead == lines # <<>> /\ IsDone(lines[Len(lines)])

\* C26: the terminator is the last line read; once it is read there is no
\* scanner error and no error result, Execute is past its loop, and the
\* producer of ExecuteStream is past its loop with nothing to send, every
\* item received being a chunk of a line before the terminator.
C26_NothingAfterTerminator ==
    /\ \A k \in 1..(Len(lines) - 1) : ~(lines[k].prefix
                                        /\ lines[k].data = "[DONE]")
    /\ TerminatorRead =>
          /\ scanErr = NoErr
          /\ err = NoErr
          /\ call = "Execute" => pc \in {"finish", "returned"}
          /\ call = "ExecuteStream" =>
                /\ ppc \in {"after", "ensure", "closebody", "closeout",
                            "done"}
                /\ pending = NoItem
                /\ \A k \in 1..Len(received) : received[k].kind = "chunk"
                /\ Len(received) = Len(LineTexts(SubSeq(lines, 1,
                                                        Len(lines) - 1)))

\* what holds of the terminator whatever the reader does: it is the last
\* line read, both loops are left, and every chunk is of a line before it;
\* when the scan that returned it reported no error, nothing but chunks is
\* received and no error is returned
C26_NoLineAfterTerminator ==
    /\ \A k \in 1..(Len(lines) - 1) : ~(lines[k].prefix
                                        /\ lines[k].data = "[DONE]")
    /\ TerminatorRead =>
          /\ call = "Execute" => pc \in {"finish", "returned"}
          /\ call = "ExecuteStream" =>
                /\ ppc \in {"after", "senderr", "ensure", "closebody",
                            "closeout", "done"}
                /\ Len(Chunks(received)) + (IF pending.kind = "chunk"
                                            THEN 1 ELSE 0)
                      = Len(LineTexts(SubSeq(lines, 1, Len(lines) - 1)))
          /\ scanErr = NoErr =>
                /\ err = NoErr
                /\ pending = NoItem
                /\ \A k \in 1..Len(received) : received[k].kind = "chunk"

\* the stream was closed after a text delta, the terminator and the error
\* item of the read that failed behind the terminator
C26_ErrorAfterTerminator ==
    /\ call = "ExecuteStream"
    /\ Len(lines) = 2
    /\ TerminatorRead
    /\ Len(received) = 2
    /\ received[1].kind = "chunk"
    /\ received[2].kind = "err"
    /\ outClosed

\* C27: in ExecuteStream the body of the upstream response is closed at most
\* once and not before a response was obtained; it was closed once when the
\* call returned a status error and once when the output channel is closed.
C27_BodyClosedOnceBeforeChannel ==
    call = "ExecuteStream" =>
        /\ bodyClosed <= 1
        /\ status = 0 => bodyClosed = 0
        /\ (pc = "returned" /\ err.kind = "statusErr" /\ status # 0) =>
              bodyClosed = 1 /\ stream = "nil" /\ ~outClosed
        /\ outClosed => bodyClosed = 1
        /\ ppc = "done" => outClosed

\* C27 witness: the channel was closed after the error item of a read error
\* was received and the body closed
C27_Witness ==
    /\ call = "ExecuteStream"
    /\ outClosed
    /\ bodyClosed = 1
    /\ scanErr.kind = "read"
    /\ Len(received) = 2
    /\ received[2].kind = "err"

RECURSIVE TextOfParts(_)
\* the texts of the text parts of a content array, one after the other
TextOfParts(parts) ==
    IF parts = <<>> THEN <<>>
    ELSE (IF Head(parts).type = "text" THEN Head(parts).text ELSE <<>>)
         \o TextOfParts(Tail(parts))

\* the text of a canonical message
TextOf(msg) ==
    IF msg.content.isArray THEN TextOfParts(msg.content.parts)
    ELSE msg.content.text

\* the canonical messages that are translated; suppressed says whether the
\* caller's system messages are left out
KeptMessages(suppressed) ==
    SelectSeq(payload.messages,
              LAMBDA msg : ~(suppressed /\ msg.role = "system"))

\* the provider messages are the messages kept, in order, after lead others
TranslatedInOrder(kept, lead) ==
    /\ Len(jumaReq.Messages) = lead + Len(kept)
    /\ \A k \in 1..Len(kept) :
          /\ jumaReq.Messages[lead + k].Role = kept[k].role
          /\ jumaReq.Messages[lead + k].Content = TextOf(kept[k])
          /\ jumaReq.Messages[lead + k].Parts =
                IF TextOf(kept[k]) = <<>> THEN <<>>
                ELSE <<[Type |-> "text", Text |-> TextOf(kept[k])]>>

\* C28: the provider messages follow the canonical messages they come from in
\* order, one per canonical message that is not suppressed and with its role
\* (after the synthetic system message where there is one); the text of each
\* is the concatenation of the message's text parts in order, and its parts
\* are that one text and never an image.
C28_MessagesInOrder ==
    jumaReq # NoRequest =>
        /\ \/ TranslatedInOrder(KeptMessages(FALSE), 0)
           \/ /\ jumaReq.Messages[1].Role = "system"
              /\ TranslatedInOrder(KeptMessages(TRUE), 1)
        /\ \A k \in 1..Len(jumaReq.Messages) :
              \A i \in 1..Len(jumaReq.Messages[k].Parts) :
                  jumaReq.Messages[k].Parts[i].Type = "text"

\* C28 witness: a conversation of four messages was translated for the
\* image-edit variant: its system message is left out, the text parts around
\* the uploaded image are joined, the message of unknown parts has no part
C28_Witness ==
    /\ payload.messages = Conversation
    /\ reqModel = AliasNanobanana
    /\ Len(jumaReq.Messages) = 4
    /\ jumaReq.Messages[2].Role = "user"
    /\ jumaReq.Messages[2].Content = <<"a", "b">>
    /\ jumaReq.Messages[2].UploadedImages # <<>>
    /\ jumaReq.Messages[3].Role = "assistant"
    /\ jumaReq.Messages[3].Parts = <<>>
    /\ jumaReq.Messages[4].Role = "tool"

Blank(c) == c \in {" ", "\t", "\n", "\r"}

\* value holds something other than white space
NonBlank(value) == \E k \in 1..Len(value) : ~Blank(value[k])

\* r is value without its leading and trailing white space
IsTrimOf(r, value) ==
    \E lo, hi \in 1..Len(value) :
        /\ r = SubSeq(value, lo, hi)
        /\ ~Blank(value[lo]) /\ ~Blank(value[hi])
        /\ \A k \in 1..Len(value) : (k < lo \/ k > hi) => Blank(value[k])

\* the correlation identifier is the trimmed value of the first of the
\* alternate fields of document d that is not blank
IsFirstAlternate(r, d) ==
    \E i \in 1..Len(CandidateFields) :
        /\ CandidateFields[i] \in DOMAIN d
        /\ IsTrimOf(r, d[CandidateFields[i]])
        /\ \A j \in 1..(i - 1) :
              CandidateFields[j] \in DOMAIN d =>
                  ~NonBlank(d[CandidateFields[j]])

\* C29: when the asset's declared type is the knowledge category and its
\* identifier is not empty, the correlation identifier is that identifier,
\* whatever the alternate fields hold; otherwise, when one of the alternate
\* fields is not blank, it is the trimmed value of the first such field in
\* the fixed order of the fields.
C29_CorrelationRulesInOrder ==
    ret.fn = "extractJumaKnowledgeItemID" =>
        IF /\ "image.type" \in DOMAIN arg.imageData
           /\ arg.imageData["image.type"] = <<"Knowledge">>
           /\ "image.id" \in DOMAIN arg.imageData
        THEN ret.value = arg.imageData["image.id"]
        ELSE (\E i \in 1..Len(CandidateFields) :
                 /\ CandidateFields[i] \in DOMAIN arg.imageData
                 /\ NonBlank(arg.imageData[CandidateFields[i]])) =>
             IsFirstAlternate(ret.value, arg.imageData)

\* C29 witnesses: the identifier of a knowledge asset won over an explicit
\* field, or the second of two alternate fields was taken, trimmed, because
\* the first was blank
C29_Witness ==
    /\ ret.fn = "extractJumaKnowledgeItemID"
    /\ \/ /\ Get(arg.imageData, "image.type") = <<"Knowledge">>
          /\ Get(arg.imageData, "knowledgeItemId") = <<"K1">>
          /\ ret.value = <<"A1">>
       \/ /\ Get(arg.imageData, "image.type") = <<"Image">>
          /\ Get(arg.imageData, "image.id") = <<"A1">>
          /\ Get(arg.imageData, "knowledgeItem.id") = <<" ">>
          /\ Get(arg.imageData, "knowledge.id") = <<" ", "K2">>
          /\ ret.value = <<"K2">>

\* C30: CountTokens returns the error that token counting is not supported
\* and the empty response, for every credential and request, and sends no
\* request.
C30_CountTokensUnsupported ==
    ret.fn = "CountTokens" =>
        /\ ret.value.err.kind = "juma executor: token counting not supported"
        /\ ret.value.resp.object = ""
        /\ ret.value.resp.content = <<>>
        /\ ret.value.resp.url = <<>>
        /\ ret.value.net = <<>>
        /\ net = <<>>

\* C30 witness: CountTokens returned its error for a valid credential and a
\* model of the catalog
C30_Witness ==
    /\ ret.fn = "CountTokens"
    /\ arg.auth = FullAuth
    /\ arg.req.model = AliasGPT
    /\ ret.value.err # NoErr


\* ------------------------------------------------------------------
\* Image hosting (UploadBase64Image)
\* ------------------------------------------------------------------

\* A URL is the sequence of its pieces, "data:" and "," being pieces of
\* their own: data:image/png;base64,QUJD is
\* <<"data:", "image/png", ";", "base64", ",", "QUJD">>.

\* strings.HasPrefix(imageURL, "data:")
HasDataPrefix(u) == Len(u) > 0 /\ Head(u) = "data:"

\* strings.Index: the first position of piece t in s, 0 when absent
RECURSIVE IndexFrom(_, _, _)
IndexFrom(s, t, i) ==
    IF i > Len(s) THEN 0
    ELSE IF s[i] = t THEN i
    ELSE IndexFrom(s, t, i + 1)

\* the media type of the metadata: its first ";"-separated part, or
\* application/octet-stream when that part is empty
MediaType(metadata) ==
    IF metadata = <<>> \/ Head(metadata) = ";"
    THEN "application/octet-stream"
    ELSE Head(metadata)

\* parseDataURL
parseDataURL(u) ==
    IF ~HasDataPrefix(u) \/ IndexFrom(Tail(u), ",", 1) = 0
    THEN [ok |-> FALSE, mimeType |-> "", data |-> <<>>]
    ELSE [ok |-> TRUE,
          mimeType |-> MediaType(SubSeq(Tail(u), 1,
                                        IndexFrom(Tail(u), ",", 1) - 1)),
          data |-> SubSeq(Tail(u), IndexFrom(Tail(u), ",", 1) + 1,
                          Len(Tail(u)))]

\* getExtensionFromMimeType
getExtensionFromMimeType(mimeType) ==
    CASE mimeType \in {"image/jpeg", "image/jpg"} -> ".jpg"
      [] mimeType = "image/png" -> ".png"
      [] mimeType = "image/gif" -> ".gif"
      [] mimeType = "image/webp" -> ".webp"
      [] mimeType = "image/bmp" -> ".bmp"
      [] mimeType = "image/svg+xml" -> ".svg"
      [] OTHER -> ".png"

\* the pieces base64.StdEncoding.DecodeString decodes
Base64Words == {"QUJD", "RUZH"}

\* base64.StdEncoding.DecodeString succeeds
DecodesBase64(data) == \A i \in 1..Len(data) : data[i] \in Base64Words

\* http.NewRequest fails on an endpoint net/url cannot parse
NewRequestFails(endpoint) == endpoint = ":"

\* the hosting answer's status is taken for success, any 2xx status
\* counting
HostingStatusOKAny2xx(code) == code >= 200 /\ code < 300

\* the hosting answer's status is taken for success
HostingStatusOK(code) == code = StatusOK \/ code = StatusCreated

\* the request UploadBase64Image posts to the hosting service
HostingRequest(cfg, parsed) ==
    [method |-> "POST", url |-> cfg.endpoint, key |-> cfg.apiKey,
     file |-> [field |-> "file",
               ext |-> getExtensionFromMimeType(parsed.mimeType),
               data |-> parsed.data],
     fields |-> <<[name |-> "access_level", value |-> "public"],
                  [name |-> "optimize", value |-> "true"]>>]

\* UploadBase64Image once the hosting service answered h
HostingAnswered(u, h, sent) ==
    IF h.readErr THEN [url |-> u, err |-> "read", net |-> sent]
    ELSE IF ~HostingStatusOK(h.status)
    THEN [url |-> u, err |-> "status", net |-> sent]
    ELSE IF ~h.json THEN [url |-> u, err |-> "unmarshal", net |-> sent]
    ELSE IF h.code # 200 THEN [url |-> u, err |-> "code", net |-> sent]
    ELSE IF h.url = <<>> THEN [url |-> u, err |-> "missing URL", net |-> sent]
    ELSE [url |-> h.url, err |-> "", net |-> sent]

\* UploadBase64Image once the data URL was parsed
HostingParsed(cfg, u, h, parsed) ==
    IF ~parsed.ok THEN [url |-> u, err |-> "parse", net |-> <<>>]
    ELSE IF ~DecodesBase64(parsed.data)
    THEN [url |-> u, err |-> "decode", net |-> <<>>]
    ELSE IF NewRequestFails(cfg.endpoint)
    THEN [url |-> u, err |-> "request", net |-> <<>>]
    ELSE IF h.transportErr
    THEN [url |-> u, err |-> "upload",
          net |-> <<HostingRequest(cfg, parsed)>>]
    ELSE HostingAnswered(u, h, <<HostingRequest(cfg, parsed)>>)

\* UploadBase64Image(cfg, imageURL); h is what the hosting service would
\* answer; the result is the returned URL, the error ("" for nil) and the
\* HTTP requests sent
UploadBase64Image(cfg, u, h) ==
    IF cfg.nil \/ ~cfg.enable \/ cfg.endpoint = ""
    THEN [url |-> u, err |-> "", net |-> <<>>]
    ELSE IF ~HasDataPrefix(u) THEN [url |-> u, err |-> "", net |-> <<>>]
    ELSE HostingParsed(cfg, u, h, parseDataURL(u))

\* configurations: none, hosting switched off, no endpoint, an endpoint,
\* an endpoint that is no URL
HostingConfig(nil, enable, endpoint) ==
    [nil |-> nil, enable |-> enable, endpoint |-> endpoint,
     apiKey |-> IF nil THEN "" ELSE "k"]

HostingConfigs ==
    {HostingConfig(TRUE, FALSE, ""),
     HostingConfig(FALSE, FALSE, "https://img/api"),
     HostingConfig(FALSE, TRUE, ""),
     HostingConfig(FALSE, TRUE, "https://img/api"),
     HostingConfig(FALSE, TRUE, ":")}

PublicURL == <<"https://", "img/p.png">>

HostingURLs ==
    {<<>>,
     <<"https://", "h/a.png">>,
     <<"data:", "image/png", ";", "base64", ",", "QUJD">>,
     <<"data:", "image/jpeg", ";", "base64", ",", "QUJD", "RUZH">>,
     <<"data:", ",", "QUJD">>,
     <<"data:", ";", "base64", ",">>,
     <<"data:", "image/png", ";", "base64", "QUJD">>,
     <<"data:", "image/png", ";", "base64", ",", "QUJD", "!">>,
     <<"data:", "image/png", ",", "QUJD", ",", "RUZH">>}

HostingDocuments ==
    {[json |-> FALSE, code |-> 0, url |-> <<>>],
     [json |-> TRUE, code |-> 0, url |-> <<>>],
     [json |-> TRUE, code |-> 0, url |-> PublicURL],
     [json |-> TRUE, code |-> 200, url |-> <<>>],
     [json |-> TRUE, code |-> 200, url |-> PublicURL],
     [json |-> TRUE, code |-> 201, url |-> PublicURL],
     [json |-> TRUE, code |-> 500, url |-> PublicURL]}

HostingAnswer(transportErr, readErr, code, doc) ==
    [transportErr |-> transportErr, readErr |-> readErr, status |-> code,
     json |-> doc.json, code |-> doc.code, url |-> doc.url]

HostingAnswers ==
    {HostingAnswer(FALSE, FALSE, code, doc) :
        code \in {StatusOK, StatusCreated, StatusAccepted, 404},
        doc \in HostingDocuments}
    \cup {HostingAnswer(failed = "transport", failed = "read",
                         IF failed = "transport" THEN 0 ELSE StatusOK,
                         [json |-> TRUE, code |-> 200, url |-> PublicURL]) :
            failed \in {"transport", "read"}}

CallUploadBase64Image ==
    Returns("UploadBase64Image",
            UploadBase64Image(arg.cfg, arg.imageURL, arg.answer))

InitHosting ==
    InitCall({[fn |-> "UploadBase64Image", cfg |-> c, imageURL |-> u,
               answer |-> h] :
                c \in HostingConfigs, u \in HostingURLs,
                h \in HostingAnswers})

NextHosting == CallUploadBase64Image

SpecHosting == InitHosting /\ [][NextHosting]_vars

\* UploadBase64Image has returned
HostingReturned == arg.fn = "UploadBase64Image" /\ ret # NoCall

\* image hosting does not apply to the call: no configuration, switched
\* off, no endpoint, or no data URL
HostingSkipped ==
    \/ arg.cfg.nil
    \/ ~arg.cfg.enable
    \/ arg.cfg.endpoint = ""
    \/ arg.imageURL = <<>>
    \/ arg.imageURL[1] # "data:"

\* the data URL has no comma after its prefix
HostingMalformed ==
    \A i \in 2..Len(arg.imageURL) : arg.imageURL[i] # ","

\* a piece after the first comma is not base64
HostingBadBase64 ==
    \E i \in 2..Len(arg.imageURL) :
        /\ arg.imageURL[i] \notin Base64Words
        /\ \E j \in 2..(i - 1) : arg.imageURL[j] = ","

\* one of the failures of an upload that was attempted
HostingFailure ==
    \/ HostingMalformed
    \/ HostingBadBase64
    \/ arg.answer.transportErr
    \/ arg.answer.status \notin {200, 201}
    \/ ~arg.answer.json
    \/ arg.answer.code # 200
    \/ arg.answer.url = <<>>

\* C31: UploadBase64Image returns its input unchanged, with no error and no
\* HTTP request, when hosting is off, has no endpoint, is not configured or
\* the input is no data URL; on every failure it returns its input with an
\* error; a URL other than its input is returned only by an upload that
\* succeeded in full, and is the public URL of the answer.
C31_HostingReturnsInputUnlessUploaded ==
    HostingReturned =>
        /\ HostingSkipped =>
              /\ ret.value.url = arg.imageURL
              /\ ret.value.err = ""
              /\ ret.value.net = <<>>
        /\ (~HostingSkipped /\ HostingFailure) =>
              /\ ret.value.url = arg.imageURL
              /\ ret.value.err # ""
        /\ ret.value.err # "" => ret.value.url = arg.imageURL
        /\ ret.value.url # arg.imageURL =>
              /\ ~HostingSkipped /\ ~HostingFailure
              /\ ret.value.err = ""
              /\ ret.value.url = arg.answer.url
              /\ Len(ret.value.net) = 1

\* an upload of a data URL succeeded in full and its public URL is returned
C31_Witness ==
    /\ HostingReturned
    /\ ~HostingSkipped
    /\ ret.value.url = PublicURL
    /\ ret.value.url # arg.imageURL
    /\ ret.value.err = ""
    /\ arg.answer.status = StatusCreated


\* ------------------------------------------------------------------
\* Deployment script (deploy.sh)
\* ------------------------------------------------------------------

\* A file is its content, "absent" when it does not exist.  deploy holds
\* the position of the script, the files it touches (temp: /tmp/CLIProxyAPI;
\* binary, bak, config, example: CLIProxyAPI, CLIProxyAPI.bak, config.yaml
\* and config.example.yaml in /opt/cliproxy), the config.yaml the run
\* started with, the systemctl commands issued and the exit status.
\* The script runs under set -e: a command that fails outside a condition
\* or a || list ends it with the status of that command.

\* the statuses a command that fails may exit with
FailureStatuses == {1, 3}

\* the script ends with exit status rc
DeployExit(d, rc) == [d EXCEPT !.pc = "exit", !.rc = rc]

\* the script is at position p
DeployAt(p) == deploy.pc = p

\* the frame of a step of the script
DeployFrame == UNCHANGED <<progVars, hostEnv, arg, ret>>

\* if [ "$EUID" -ne 0 ]; then exit 1
DeployCheckRoot ==
    /\ DeployAt("root")
    /\ deploy' = IF deploy.euid # 0 THEN DeployExit(deploy, 1)
                 ELSE [deploy EXCEPT !.pc = "binary"]
    /\ DeployFrame

\* if [ ! -f "$TEMP_BINARY" ]; then exit 1
DeployCheckBinary ==
    /\ DeployAt("binary")
    /\ deploy' = IF deploy.temp = "absent" THEN DeployExit(deploy, 1)
                 ELSE [deploy EXCEPT !.pc = "stop"]
    /\ DeployFrame

\* systemctl stop $SERVICE_NAME || log_warn
DeployStop ==
    /\ DeployAt("stop")
    /\ deploy' = [deploy EXCEPT !.pc = "backup",
                                !.service = Append(@, "stop")]
    /\ DeployFrame

\* if [ -f binary ]; then mv binary binary.bak
DeployBackup ==
    /\ DeployAt("backup")
    /\ \E failed \in BOOLEAN, rc \in FailureStatuses :
          deploy' =
              IF deploy.binary = "absent"
              THEN [deploy EXCEPT !.pc = "install"]
              ELSE IF failed THEN DeployExit(deploy, rc)
              ELSE [deploy EXCEPT !.pc = "install", !.bak = deploy.binary,
                                  !.binary = "absent"]
    /\ DeployFrame

\* mv "$TEMP_BINARY" binary; chmod +x; chown.  /tmp and the application
\* directory may lie on different file systems, where mv copies the file
\* and then removes the source: a mv that fails leaves no file, part of
\* one, or the whole copy with the temp file still in place (the removal
\* failed)
DeployInstall ==
    /\ DeployAt("install")
    /\ \E failed \in {"no", "mv", "mv midway", "mv unlink",
                       "chmod or chown"},
          rc \in FailureStatuses :
          deploy' =
              IF failed = "mv" THEN DeployExit(deploy, rc)
              ELSE IF failed = "mv midway"
              THEN DeployExit([deploy EXCEPT !.binary = "partial"], rc)
              ELSE IF failed = "mv unlink"
              THEN DeployExit([deploy EXCEPT !.binary = deploy.temp], rc)
              ELSE IF failed = "chmod or chown"
              THEN DeployExit([deploy EXCEPT !.binary = deploy.temp,
                                             !.temp = "absent"], rc)
              ELSE [deploy EXCEPT !.pc = "config", !.binary = deploy.temp,
                                  !.temp = "absent"]
    /\ DeployFrame

\* the config block, a present config.yaml being overwritten from the
\* example
DeployConfigOverwrite ==
    /\ DeployAt("config")
    /\ deploy' = [deploy EXCEPT !.pc = "perms",
                     !.config = IF deploy.example # "absent"
                                THEN deploy.example ELSE @]
    /\ DeployFrame

\* if [ ! -f config.yaml ]; then if [ -f config.example.yaml ]; then
\* cp config.example.yaml config.yaml; chown ...; a cp that fails leaves
\* no file or part of one
DeployConfig ==
    /\ DeployAt("config")
    /\ \E failed \in {"no", "cp", "cp midway", "chown"},
          rc \in FailureStatuses :
          deploy' =
              IF deploy.config # "absent" \/ deploy.example = "absent"
              THEN [deploy EXCEPT !.pc = "perms"]
              ELSE IF failed = "cp" THEN DeployExit(deploy, rc)
              ELSE IF failed = "cp midway"
              THEN DeployExit([deploy EXCEPT !.config = "partial"], rc)
              ELSE IF failed = "chown"
              THEN DeployExit([deploy EXCEPT !.config = deploy.example], rc)
              ELSE [deploy EXCEPT !.pc = "perms",
                                  !.config = deploy.example]
    /\ DeployFrame

\* chown -R cliproxy:cliproxy "$APP_DIR"; chmod 755 "$APP_DIR"
DeployPerms ==
    /\ DeployAt("perms")
    /\ \E failed \in BOOLEAN, rc \in FailureStatuses :
          deploy' = IF failed THEN DeployExit(deploy, rc)
                    ELSE [deploy EXCEPT !.pc = "start"]
    /\ DeployFrame

\* systemctl start $SERVICE_NAME; sleep 3
DeployStart ==
    /\ DeployAt("start")
    /\ \E failed \in BOOLEAN, rc \in FailureStatuses :
          deploy' =
              IF failed
              THEN DeployExit([deploy EXCEPT !.service = Append(@, "start")],
                              rc)
              ELSE [deploy EXCEPT !.pc = "active",
                                  !.service = Append(@, "start")]
    /\ DeployFrame

\* if systemctl is-active --quiet $SERVICE_NAME; then systemctl status;
\* journalctl -n 10; netstat | grep || log_warn; else journalctl -n 20;
\* if [ -f binary.bak ] ...; exit 1.  systemctl status and journalctl stand
\* outside a condition: one that fails ends the script with its status.
DeployCheckActive ==
    /\ DeployAt("active")
    /\ \E active \in BOOLEAN, failed \in BOOLEAN, rc \in FailureStatuses :
          deploy' =
              IF failed THEN DeployExit(deploy, rc)
              ELSE IF active THEN DeployExit(deploy, 0)
              ELSE IF deploy.bak = "absent" THEN DeployExit(deploy, 1)
              ELSE [deploy EXCEPT !.pc = "restore"]
    /\ DeployFrame

\* mv binary.bak binary; systemctl start $SERVICE_NAME; if systemctl
\* is-active ...; exit 1
DeployRestore ==
    /\ DeployAt("restore")
    /\ \E failed \in {"no", "mv", "start"}, rc \in FailureStatuses :
          deploy' =
              IF failed = "mv" THEN DeployExit(deploy, rc)
              ELSE DeployExit([deploy EXCEPT !.binary = deploy.bak,
                                             !.bak = "absent",
                                             !.service = Append(@, "start")],
                              IF failed = "start" THEN rc ELSE 1)
    /\ DeployFrame

\* the hosts the script is run on
DeployStarts ==
    {[pc |-> "root", rc |-> -1, euid |-> euid, temp |-> temp,
      binary |-> binary, bak |-> bak, config |-> config,
      example |-> example, initial |-> config, service |-> <<>>] :
        euid \in {0, 1000},
        temp \in {"absent", "new build"},
        binary \in {"absent", "old build"},
        bak \in {"absent", "older build"},
        config \in {"absent", "settings", "template"},
        example \in {"absent", "template", "newer template"}}

InitDeploy ==
    /\ call = "Execute"
    /\ ctx = "live"
    /\ auth = NilAuth
    /\ reqModel = AliasGPT
    /\ payload = Request(NilAuth, AliasGPT, <<>>).payload
    /\ Fresh
    /\ arg = NoCall
    /\ ret = NoCall
    /\ deploy \in DeployStarts

NextDeploy ==
    \/ DeployCheckRoot
    \/ DeployCheckBinary
    \/ DeployStop
    \/ DeployBackup
    \/ DeployInstall
    \/ DeployConfig
    \/ DeployPerms
    \/ DeployStart
    \/ DeployCheckActive
    \/ DeployRestore

SpecDeploy == InitDeploy /\ [][NextDeploy]_vars

\* the script has issued systemctl start
DeployStarted == \E i \in 1..Len(deploy.service) : deploy.service[i] = "start"

\* C32: in every run of the deployment script a config.yaml that exists
\* keeps its content; when config.yaml does not exist and
\* config.example.yaml does, config.yaml is a copy of config.example.yaml
\* by the time the service is started.
C32_ConfigKeptOrCreatedBeforeStart ==
    /\ deploy.initial # "absent" => deploy.config = deploy.initial
    /\ (deploy.initial = "absent" /\ deploy.example # "absent"
          /\ DeployStarted) =>
          deploy.config = deploy.example

\* runs that reached the start of the service: one with the settings it
\* found, whose example differs from them; one started on a copy of the
\* example
C32_Witness ==
    /\ DeployStarted
    /\ deploy.rc = 0
    /\ deploy.initial = "absent"
    /\ deploy.example = "newer template"
    /\ deploy.config = "newer template"

C32_WitnessKept ==
    /\ DeployStarted
    /\ deploy.initial = "settings"
    /\ deploy.example = "newer template"
    /\ deploy.config = "settings"


\* ------------------------------------------------------------------
\* Progress of the ExecuteStream producer
\* ------------------------------------------------------------------

\* The Go scheduler runs a goroutine that can take a step, so the return
\* of ExecuteStream and each step of the producer are weakly fair; Receive
\* is fair because the consumer is taken to keep receiving as long as it
\* has not stopped.
ProducerFairness ==
    /\ WF_vars(StreamReturn)
    /\ WF_vars(ProdScan)
    /\ WF_vars(ProdAfter)
    /\ WF_vars(ProdEnsure)
    /\ WF_vars(ProdCloseBody)
    /\ WF_vars(ProdCloseOut)
    /\ WF_vars(Receive)

\* the requests of the progress check: one the credential check rejects and
\* one of each kind that reaches the upstream (text model, image model,
\* uploaded image); the producer reads none of the request but the model
LiveRequests ==
    {Request(NilAuth, AliasGPT, TextOnly),
     Request(FullAuth, AliasGPT, TextOnly),
     Request(FullAuth, AliasNanobanana, TextOnly),
     Request(FullAuth, AliasGPT, WithDataImage)}

InitLive == InitWith(LiveRequests)

SpecLive == InitLive /\ [][Next]_vars /\ ProducerFairness

\* the producer goroutine was started and has not finished
ProducerRunning == ppc \notin {"none", "done"}

\* the producer goroutine returned and its deferred close(out) ran
ProducerTerminated == ppc = "done" /\ outClosed

\* C33: under fairness, a producer whose consumer keeps receiving
\* terminates and closes the output channel, however the upstream body
\* ends (terminator line, end of body, read error).
C33_ProducerTerminates ==
    ProducerRunning ~> (ProducerTerminated \/ consumerGone)

\* the producer terminated after a read error that the consumer received
C33_Witness ==
    /\ ProducerTerminated
    /\ ~consumerGone
    /\ scanErr # NoErr
    /\ Len(received) >= 2


\* ------------------------------------------------------------------
\* Buffered Execute: a read that fails
\* ------------------------------------------------------------------

\* Execute returned after reading of the body failed
ExecuteReadFailed ==
    /\ call = "Execute"
    /\ pc = "returned"
    /\ status # 0
    /\ scanErr # NoErr

\* text-delta or image events were read
PartialContentRead ==
    \E i \in 1..Len(lines) :
        /\ lines[i].prefix
        /\ \/ lines[i].type = "text-delta" /\ lines[i].delta # <<>>
           \/ lines[i].type = "tool-output-available"
              /\ lines[i].imageUrl # <<>>

\* C34: when reading the body fails during a buffered Execute, whatever
\* was accumulated before, Execute returns the read error and the empty
\* response, and no success is reported.
C34_ReadErrorDropsPartialContent ==
    ExecuteReadFailed =>
        /\ err = scanErr
        /\ resp = NoResp
        /\ \A i \in 1..Len(reporter.reports) :
              reporter.reports[i].fn # "ensurePublished"

\* the read failed after a text delta and an image event were accumulated
C34_Witness ==
    /\ ExecuteReadFailed
    /\ PartialContentRead
    /\ err = otherErr("read")
    /\ resp = NoResp
    /\ generatedImageURL # <<>>
    /\ \E i \in 1..Len(lines) :
          lines[i].prefix /\ lines[i].type = "text-delta"
          /\ lines[i].delta # <<>>


\* ------------------------------------------------------------------
\* The two read loops over the same upstream body
\* ------------------------------------------------------------------

\* the read loop of Execute over the lines ls from line i on, up to the
\* terminator or the end of the body
RECURSIVE ExecuteRead(_, _, _)
ExecuteRead(acc, ls, i) ==
    IF i > Len(ls) THEN acc
    ELSE IF IsDone(ls[i]) THEN acc
    ELSE ExecuteRead(ExecuteLine(acc, ls[i]), ls, i + 1)

\* the response of Execute once the loop ended without a read error
ExecuteBuilt(alias, acc) ==
    ExecuteResponse(alias, acc.fullContent, acc.generatedImageURL)

\* Execute from the read loop on, the body being the lines ls
ExecuteBody(alias, ls) ==
    ExecuteBuilt(alias, ExecuteRead([fullContent |-> <<>>,
                                     generatedImageURL |-> <<>>], ls, 1))

\* the producer loop of ExecuteStream over the lines ls from line i on: the
\* chunks sent, the consumer receiving each
RECURSIVE StreamRead(_, _, _, _, _)
StreamRead(alias, ls, i, index, sent) ==
    IF i > Len(ls) THEN sent
    ELSE IF IsDone(ls[i]) THEN sent
    ELSE IF StreamChunkFor(ls[i], alias, index) = NoItem
    THEN StreamRead(alias, ls, i + 1, index, sent)
    ELSE StreamRead(alias, ls, i + 1, NextIndex(index),
                    Append(sent, StreamChunkFor(ls[i], alias, index)))

\* the producer of ExecuteStream, the body being the lines ls
StreamBody(alias, ls) == StreamRead(alias, ls, 1, 0, <<>>)

\* the bodies: text deltas (plain, a whole generated-image tag, the two
\* halves of one), image events with two different URLs or none, an event
\* of another type and a line without the data prefix, with or without the
\* terminator at the end
TagHead == SubSeq(ImageTag, 1, 4)

TagRest == SubSeq(ImageTag, 5, Len(ImageTag))

BodyLines ==
    { UpstreamLine(TRUE, "json", "text-delta", <<"a">>, <<>>),
      UpstreamLine(TRUE, "json", "text-delta", ImageTag, <<>>),
      UpstreamLine(TRUE, "json", "text-delta", TagHead, <<>>),
      UpstreamLine(TRUE, "json", "text-delta", TagRest, <<>>),
      UpstreamLine(TRUE, "json", "tool-output-available", <<>>, <<"v">>),
      UpstreamLine(TRUE, "json", "tool-output-available", <<>>, <<"w">>),
      UpstreamLine(TRUE, "json", "tool-output-available", <<>>, <<>>),
      UpstreamLine(TRUE, "json", "start", <<"a">>, <<"v">>),
      UpstreamLine(FALSE, "json", "text-delta", <<"a">>, <<>>) }

Terminator == UpstreamLine(TRUE, "[DONE]", "", <<>>, <<>>)

Bodies ==
    UNION {[1..n -> BodyLines] : n \in 0..MaxEvents}
    \cup {Append(b, Terminator) :
            b \in UNION {[1..n -> BodyLines] : n \in 0..MaxEvents}}

CallReadBody ==
    Returns("read body",
            [resp |-> ExecuteBody(arg.alias, arg.lines),
             chunks |-> StreamBody(arg.alias, arg.lines)])

InitReadBody ==
    InitCall({[fn |-> "read body", alias |-> m, lines |-> b] :
                m \in {AliasGPT, AliasNanobanana},
                b \in Bodies})

NextReadBody == CallReadBody

SpecReadBody == InitReadBody /\ [][NextReadBody]_vars

\* both loops have read the body
BodyRead == arg.fn = "read body" /\ ret # NoCall

\* the deltas of the chunks cs, in order, as one text
RECURSIVE JoinDeltas(_)
JoinDeltas(cs) ==
    IF cs = <<>> THEN <<>> ELSE Head(cs).delta \o JoinDeltas(Tail(cs))

\* the body is text-delta events followed by the terminator
TextDeltasThenTerminator ==
    /\ Len(arg.lines) >= 2
    /\ arg.lines[Len(arg.lines)] = Terminator
    /\ \A i \in 1..(Len(arg.lines) - 1) :
          arg.lines[i].prefix /\ arg.lines[i].type = "text-delta"

\* a delta ends inside a generated-image tag
TagSplitAcrossDeltas ==
    \E i \in 1..Len(arg.lines) :
        arg.lines[i].prefix /\ arg.lines[i].delta = TagHead

\* C35: for a body of text-delta events followed by the terminator, the
\* deltas of the chunks of ExecuteStream, joined in order, are the content
\* Execute returns, however the text is split into deltas.
C35_StreamEqualsBuffered ==
    (BodyRead /\ TextDeltasThenTerminator) =>
        JoinDeltas(ret.value.chunks) = ret.value.resp.content

\* the two agree when every generated-image tag lies within one delta
C35_StreamEqualsBufferedUnsplit ==
    (BodyRead /\ TextDeltasThenTerminator /\ ~TagSplitAcrossDeltas) =>
        JoinDeltas(ret.value.chunks) = ret.value.resp.content


\* the events of the body: its lines before the terminator
EventsOf(ls) ==
    IF ls # <<>> /\ ls[Len(ls)] = Terminator THEN SubSeq(ls, 1, Len(ls) - 1)
    ELSE ls

\* the text of the text-delta events of ls, in arrival order
RECURSIVE DeltaTextOf(_)
DeltaTextOf(ls) ==
    IF ls = <<>> THEN <<>>
    ELSE (IF Head(ls).prefix /\ Head(ls).type = "text-delta"
          THEN Head(ls).delta ELSE <<>>) \o DeltaTextOf(Tail(ls))

\* line l is an image-carrying event
CarriesImage(l) ==
    l.prefix /\ l.type = "tool-output-available" /\ l.imageUrl # <<>>

\* the image URL of the last image-carrying event of ls, <<>> when none
RECURSIVE LastImageOf(_)
LastImageOf(ls) ==
    IF ls = <<>> THEN <<>>
    ELSE IF CarriesImage(ls[Len(ls)]) THEN ls[Len(ls)].imageUrl
    ELSE LastImageOf(SubSeq(ls, 1, Len(ls) - 1))

\* the blank line between text and image
BlankLineAfter(text) == IF text # <<>> THEN <<"\n\n">> ELSE <<>>

\* Execute answered a body with image events by a chat completion
ChatCompletionWithImage ==
    /\ BodyRead
    /\ ret.value.resp.object = "chat.completion"
    /\ LastImageOf(EventsOf(arg.lines)) # <<>>

\* C36 as stated: the content is the text of the text-delta events as it
\* arrived, then one markdown image, that of the last image event, after a
\* blank line when there is text.
C36_ContentIsTextThenLastImage ==
    ChatCompletionWithImage =>
        ret.value.resp.content =
            DeltaTextOf(EventsOf(arg.lines))
            \o BlankLineAfter(DeltaTextOf(EventsOf(arg.lines)))
            \o <<"![Generated Image](">>
            \o LastImageOf(EventsOf(arg.lines)) \o <<")">>

\* C36: when the body of a buffered Execute holds image events, the content
\* of the chat completion is the text of the text-delta events in arrival
\* order with its generated-image tags rewritten, then one markdown image,
\* that of the last image event, placed after all text even when text
\* arrived after the image event, with a blank line between the two only
\* when the text is not empty.
C36_ContentIsRewrittenTextThenLastImage ==
    ChatCompletionWithImage =>
        ret.value.resp.content =
            transformGeneratedImageTags(DeltaTextOf(EventsOf(arg.lines)))
            \o BlankLineAfter(DeltaTextOf(EventsOf(arg.lines)))
            \o <<"![Generated Image](">>
            \o LastImageOf(EventsOf(arg.lines)) \o <<")">>

\* two image events with text between them: the image of the second comes
\* after the text
C36_Witness ==
    /\ ChatCompletionWithImage
    /\ Len(arg.lines) = 4
    /\ CarriesImage(arg.lines[1]) /\ arg.lines[1].imageUrl = <<"v">>
    /\ arg.lines[2].prefix /\ arg.lines[2].delta = <<"a">>
    /\ arg.lines[2].type = "text-delta"
    /\ CarriesImage(arg.lines[3]) /\ arg.lines[3].imageUrl = <<"w">>
    /\ ret.value.resp.content =
          <<"a", "\n\n", "![Generated Image](", "w", ")">>


\* ------------------------------------------------------------------
\* The ImageEdit tool and the synthetic system message
\* ------------------------------------------------------------------

\* the provider request declares the ImageEdit tool
DeclaresImageEdit ==
    \E i \in 1..Len(jumaReq.Tools) : jumaReq.Tools[i].Name = "ImageEdit"

\* the first provider message is the synthetic system message and no system
\* message of the caller follows it
SyntheticSystemOnly ==
    /\ jumaReq.Messages # <<>>
    /\ jumaReq.Messages[1].Role = "system"
    /\ jumaReq.Messages[1].Content = SystemPromptText
    /\ \A k \in 2..Len(jumaReq.Messages) :
          jumaReq.Messages[k].Role # "system"

\* C37: a provider request declares the ImageEdit tool if and only if its
\* first message is the synthetic system message and the caller's system
\* messages are suppressed, whatever the spelling of the alias and also
\* when the payload names another model than the request.
C37_ToolIffSyntheticSystemMessage ==
    (jumaReq # NoRequest /\ pc = "do") =>
        (DeclaresImageEdit <=> SyntheticSystemOnly)

\* the same, for requests whose payload names the model of the request
C37_ToolIffSyntheticSystemMessageSameModel ==
    (jumaReq # NoRequest /\ pc = "do" /\ payload.model = reqModel) =>
        (DeclaresImageEdit <=> SyntheticSystemOnly)


\* ------------------------------------------------------------------
\* Attachments when some uploads fail
\* ------------------------------------------------------------------

\* the content type starts with image/
NamesImage(contentType) ==
    /\ Len(contentType) >= 6
    /\ <<contentType[1], contentType[2], contentType[3], contentType[4],
          contentType[5], contentType[6]>> = <<"i", "m", "a", "g", "e", "/">>

\* the image of part sl reaches the upload: it is a data URL, or a remote
\* image whose fetch gave an image within the size limit
ImageObtained(sl) ==
    \/ payload.messages[sl[1]].content.parts[sl[2]].url.scheme = "data"
    \/ /\ ~hostEnv[sl].fetch.transportErr
       /\ hostEnv[sl].fetch.status = 200
       /\ ~hostEnv[sl].fetch.readErr
       /\ hostEnv[sl].fetch.size <= 10 * 1024 * 1024
       /\ NamesImage(IF hostEnv[sl].fetch.contentType = <<>>
                     THEN hostEnv[sl].fetch.sniffed
                     ELSE hostEnv[sl].fetch.contentType)

\* the asset the negotiation endpoint described for part sl
NegotiatedItem(sl) == hostEnv[sl].negotiate.lines[2].item

\* the three upload steps of part sl went through and gave an asset with an
\* identifier and a URL
UploadSucceeds(sl) ==
    /\ sessionToken # <<>> /\ workspaceID # <<>>
    /\ ImageObtained(sl)
    /\ ~hostEnv[sl].negotiate.transportErr
    /\ hostEnv[sl].negotiate.status = 200
    /\ Len(hostEnv[sl].negotiate.lines) = 2
    /\ "image.id" \in DOMAIN NegotiatedItem(sl)
    /\ "image.imageUrl" \in DOMAIN NegotiatedItem(sl)
    /\ hostEnv[sl].transfer \in {200, 201, 202, 204}

\* the attachment of part sl of message j, none when its upload failed
AttachmentOf(sl) ==
    IF sl \in DOMAIN hostEnv /\ UploadSucceeds(sl)
    THEN <<[ID |-> NegotiatedItem(sl)["image.id"],
            ImageURL |-> NegotiatedItem(sl)["image.imageUrl"]]>>
    ELSE <<>>

\* the attachments of message j: those of its parts, in part order
AttachmentsOf(j) == AttachmentOf(<<j, 1>>) \o AttachmentOf(<<j, 2>>)

\* the identifier and URL of an attached image
Reference(img) == [ID |-> img.ID, ImageURL |-> img.ImageURL]

\* the attachment lists of the provider messages from message k on, one
\* after the other
RECURSIVE AttachedFrom(_)
AttachedFrom(k) ==
    IF k > Len(jumaReq.Messages) THEN <<>>
    ELSE jumaReq.Messages[k].UploadedImages \o AttachedFrom(k + 1)

\* the provider messages carry the attachments of the canonical messages
\* kept, after lead others
AttachedInOrder(suppressed, lead) ==
    /\ TranslatedInOrder(KeptMessages(suppressed), lead)
    /\ \A j \in 1..Len(payload.messages) :
          LET before == Len(SelectSeq(SubSeq(payload.messages, 1, j),
                               LAMBDA msg :
                                   ~(suppressed /\ msg.role = "system")))
          IN  ~(suppressed /\ payload.messages[j].role = "system") =>
                  [i \in 1..Len(jumaReq.Messages[lead + before]
                                    .UploadedImages) |->
                      Reference(jumaReq.Messages[lead + before]
                                    .UploadedImages[i])]
                  = AttachmentsOf(j)

\* C38: whatever uploads succeed or fail, there is one provider message per
\* canonical message that is not suppressed, with its text; the attachment
\* list of each holds the images of its parts whose upload succeeded, in
\* part order, a failed image being left out and the images after it still
\* attached; and the knowledge list has one entry per attached image, in the
\* order of the attachment lists.
C38_AttachmentsBestEffort ==
    jumaReq # NoRequest =>
        /\ \/ AttachedInOrder(FALSE, 0)
           \/ /\ jumaReq.Messages[1].Content = SystemPromptText
              /\ AttachedInOrder(TRUE, 1)
        /\ Len(jumaReq.KnowledgeItems) = Len(AttachedFrom(1))
        /\ \A k \in 1..Len(jumaReq.KnowledgeItems) :
              jumaReq.KnowledgeItems[k].id = AttachedFrom(1)[k].ID

\* of the two images of one message the fetch of the first failed and the
\* second was uploaded: it is attached and is the one knowledge entry
C38_Witness ==
    /\ jumaReq # NoRequest
    /\ payload.messages = WithTwoImages
    /\ hostEnv[<<1, 1>>].fetch.status = 404
    /\ UploadSucceeds(<<1, 2>>)
    /\ Len(jumaReq.Messages[1].UploadedImages) = 1
    /\ jumaReq.Messages[1].UploadedImages[1].ID = <<"A2">>
    /\ jumaReq.KnowledgeItems = <<[id |-> <<"A2">>,
                                   source |-> "AttachedNewContextSnippet"]>>

\* two messages with an image each, both uploaded: the knowledge entries
\* follow the messages
C38_WitnessTwoMessages ==
    /\ jumaReq # NoRequest
    /\ payload.messages = WithImagesInTwoMessages
    /\ Len(jumaReq.KnowledgeItems) = 2
    /\ jumaReq.KnowledgeItems[1].id = <<"A2">>
    /\ jumaReq.KnowledgeItems[2].id = <<"A1">>
    /\ jumaReq.Messages[1].UploadedImages[1].ID = <<"A2">>
    /\ jumaReq.Messages[2].UploadedImages[1].ID = <<"A1">>


\* ------------------------------------------------------------------
\* Order of the validations
\* ------------------------------------------------------------------

\* the translator has not run: nothing was converted, no host was asked for
\* an image and no upload was attempted
NotTranslated ==
    /\ conversionResult = NoConversion
    /\ jumaReq = NoRequest
    /\ hostEnv = <<>>
    /\ net = <<>>

\* C39: the credential is checked first and the alias second, both before
\* the request is translated: a call with no session token and an unknown
\* alias fails with Unauthorized, a call with a token and an unknown alias
\* fails as an unknown model before any image is fetched or uploaded, and
\* the translator only runs for a token and a known alias.
C39_CredentialThenAliasThenTranslation ==
    /\ (auth \in TokenlessAuths /\ ~InCatalog(reqModel)) =>
          /\ NotTranslated
          /\ pc = "returned" => err = Unauthorized
    /\ (auth \notin TokenlessAuths /\ ~InCatalog(reqModel)) =>
          /\ NotTranslated
          /\ pc = "returned" => err = UnknownModel(reqModel)
    /\ ~NotTranslated =>
          auth \notin TokenlessAuths /\ InCatalog(reqModel)

\* a call with no credential and an unknown alias, carrying an image, has
\* returned
C39_Witness ==
    /\ pc = "returned"
    /\ auth = NilAuth
    /\ reqModel = UnknownAlias
    /\ ImageSlots(payload) # {}
    /\ err = Unauthorized
    /\ NotTranslated


\* ------------------------------------------------------------------
\* The size limit of remote images
\* ------------------------------------------------------------------

\* the answers of an image host: bodies below, at and above the limit, of
\* an image type or not, declared or sniffed, and the failures of the fetch
RemoteAnswers ==
    {[transportErr |-> failed = "transport", status |-> code,
      readErr |-> failed = "read", size |-> size,
      contentType |-> t.header, sniffed |-> t.sniffed] :
        failed \in {"no", "transport", "read"},
        code \in {StatusOK, 404},
        size \in {0, 3, jumaMaxRemoteImageBytes - 1, jumaMaxRemoteImageBytes,
                  jumaMaxRemoteImageBytes + 1, jumaMaxRemoteImageBytes + 2,
                  2 * jumaMaxRemoteImageBytes},
        t \in {[header |-> ImagePng, sniffed |-> ImagePng],
               [header |-> <<>>, sniffed |-> ImagePng],
               [header |-> ImageBmpCharset, sniffed |-> ImagePng],
               [header |-> ImagePngTwice, sniffed |-> ImagePng],
               [header |-> TextHtml, sniffed |-> TextHtml]}}

\* the image part of a message whose URL is remote, from the fetch to the
\* upload: what the fetch returned and what the part left behind
CallRemoteImagePart ==
    Returns("remote image part",
            [got |-> fetchImageDataURLFromHTTP(arg.env.fetch,
                                               jumaMaxRemoteImageBytes),
             acc |-> ImageURLPart(MessageStart(ConversionStart(FALSE)),
                                  RemoteURL, arg.env, <<"t">>, <<"w">>)])

InitRemoteImage ==
    InitCall({[fn |-> "remote image part",
               env |-> [fetch |-> f, negotiate |-> n,
                        transfer |-> StatusNoContent, now |-> "1"]] :
                f \in RemoteAnswers,
                n \in {Negotiated(KnowledgeItem), NegotiateRefused}})

NextRemoteImage == CallRemoteImagePart

SpecRemoteImage == InitRemoteImage /\ [][NextRemoteImage]_vars

\* the part was processed
RemoteImageDone == arg.fn = "remote image part" /\ ret # NoCall

\* the fetch was answered 200 with a body of an image type that was read
\* to its end
ImageDelivered ==
    /\ ~arg.env.fetch.transportErr
    /\ arg.env.fetch.status = 200
    /\ ~arg.env.fetch.readErr
    /\ NamesImage(IF arg.env.fetch.contentType = <<>>
                  THEN arg.env.fetch.sniffed ELSE arg.env.fetch.contentType)

\* the Content-Type header names one media type: it holds no comma
OneMediaType ==
    \A i \in 1..Len(arg.env.fetch.contentType) :
        arg.env.fetch.contentType[i] # ","

\* 10 MiB
TenMiB == 10 * 1024 * 1024

\* the requests of one kind the part sent
SentByPart(kind) ==
    {k \in 1..Len(ret.value.acc.net) : ret.value.acc.net[k].kind = kind}

\* C40: a remote image is accepted for re-encoding only when its body is at
\* most 10 MiB: a body of exactly 10 MiB is accepted, a body of 10 MiB plus
\* one byte or more is rejected before any upload negotiation, and at most
\* 10 MiB plus one byte of a body is ever read.
C40_RemoteImageSizeLimit ==
    RemoteImageDone =>
        /\ ret.value.got.ok => arg.env.fetch.size <= TenMiB
        /\ (ImageDelivered /\ arg.env.fetch.size <= TenMiB) =>
              /\ ret.value.got.ok
              /\ ret.value.got.dataURL.data.size = arg.env.fetch.size
              /\ OneMediaType => SentByPart("negotiate") # {}
        /\ arg.env.fetch.size > TenMiB =>
              /\ ~ret.value.got.ok
              /\ SentByPart("negotiate") = {}
              /\ SentByPart("transfer") = {}
              /\ ret.value.acc.msgImages = <<>>
        /\ ret.value.got.read <= TenMiB + 1

\* a body of exactly 10 MiB was accepted and its upload negotiated
C40_Witness ==
    /\ RemoteImageDone
    /\ arg.env.fetch.size = TenMiB
    /\ ret.value.got.ok
    /\ ret.value.got.read = TenMiB
    /\ SentByPart("negotiate") # {}
    /\ ret.value.acc.msgImages # <<>>

\* a body of twice the limit was rejected after 10 MiB and one byte
C40_WitnessOver ==
    /\ RemoteImageDone
    /\ arg.env.fetch.size = 2 * TenMiB
    /\ ~ret.value.got.ok
    /\ ret.value.got.read = TenMiB + 1

====
